---- MODULE Spec2Model ----
(***************************************************************************)
(* Model of the CRM client's glue logic:                                   *)
(*   - optimistic mutations of the boards and activities query caches      *)
(*     (lib/query/hooks/useBoardsQuery.ts, useActivitiesQuery.ts),         *)
(*   - CRMContext.addDeal's optimistic insert into a board's deal list,    *)
(*   - the locally persisted decision queue (decisionQueueService).        *)
(* The query client (TanStack Query) is modelled by what the hooks use of  *)
(* it: getQueryData / setQueryData on one list per collection,             *)
(* cancelQueries, invalidateQueries and the refetch an invalidation        *)
(* starts for a mounted query.                                             *)
(***************************************************************************)
EXTENDS Integers, Sequences, FiniteSets, TLC

\* ------------------------------------------------------------- bounds
\* Number of mutation calls (hook mutations) a behaviour starts.
MaxMutations == 2
\* Number of CRMContext.addDeal calls a behaviour starts.
MaxDeals == 1
\* Last value of the millisecond clock (Date.now()).
MaxNow == 2
\* Number of realtime-triggered invalidations a behaviour contains.
MaxRealtime == 1
\* Length of the stored decision queue under the queue operations.
MaxQueue == 2
\* Length of the stored decision queues getPendingDecisions is applied to.
MaxPendLen == 2
\* options.debounceMs, in milliseconds of the model's clock.
DebounceMs == 2
\* Number of board_stages INSERT events received within one tick.
MaxBurst == 3
\* Number of addDeal calls that carry a company name and may be in flight together.
MaxCalls == 2
\* Number of deals in the list checkStagnantDeals looks through.
MaxRawDeals == 4
\* Length of the activities list under checkStagnantDeals.
MaxActivities == 3
\* Number of deals the analyzers report decisions about in a long history.
MaxDealNo == 501

VARIABLES
    now,          \* Date.now(), in milliseconds
    coll,         \* the collection whose list query the behaviour follows
    server,       \* remote store: the collection's list of records
    nextId,       \* next id the remote store assigns
    cache,        \* the list query's data: [has, list] (has = FALSE: undefined)
    invalidated,  \* query.state.isInvalidated
    fetch,        \* the query's in-flight queryFn
    mut,          \* mutation slots (useMutation executions)
    deal,         \* CRMContext.addDeal calls
    companies,    \* the `companies` list of the contacts context (names)
    rtLeft,       \* realtime invalidations still to come
    decisions,    \* localStorage crm_decision_queue: state.decisions
    processed,    \* localStorage crm_processed_decisions: dedupe keys, oldest first
    recorded,     \* history: every dedupe key addProcessedDecision was called with
    call,         \* the decision queue call made last: arguments, prior state, result
    analyzerResults,  \* localStorage crm_decision_queue: state.analyzerResults
    lastAnalyzedAt,   \* state.lastAnalyzedAt (NoTime: absent)
    rawDeals,         \* CRMContext: the deals list (isWon, isLost, lastStageChangeDate)
    activities,       \* CRMContext: the activities list a new render hands to the callbacks
    stagnantRun,      \* the checkStagnantDeals call in progress: its closure and loop position
    enabled,          \* useRealtimeSync: options.enabled as of the last render
    channelRef,       \* channelRef.current
    liveChannels,     \* channels created and not removed from the client
    isConnected,      \* the isConnected state
    hookPc,           \* where React is with the subscription effect
    hasCleanup,       \* the effect's last run returned its cleanup function
    nextChannel,      \* identity of the next channel sb.channel() creates
    contacts,         \* CRMContext: the contacts list
    walletRun,        \* the checkWalletHealth call in progress: its closure and loop position
    pendingInvalidations,           \* useRealtimeSync: pendingInvalidationsRef (query keys)
    pendingInvalidateOnly,          \* pendingInvalidateOnlyRef (query keys)
    pendingBoardStagesInsertCount,  \* pendingBoardStagesInsertCountRef
    flushScheduled,                 \* flushScheduledRef
    microtasks,                     \* flush callbacks in the microtask queue
    debounceTimer,                  \* debounceTimerRef: milliseconds left, or NoTimer
    lastPass,                       \* the invalidateQueries calls of the last flush / timer callback
    owed,                           \* history: keys of received events not invalidated since
    sinceEvent,                     \* history: milliseconds since the last UPDATE/DELETE event
    runKeys                         \* history: keys queued by UPDATE/DELETE events, not invalidated since

cacheVars == <<coll, server, nextId, cache, invalidated, fetch, mut, deal, companies, rtLeft>>
queueVars == <<decisions, processed, recorded, call>>
analyzerVars == <<analyzerResults, lastAnalyzedAt>>
stagnantVars == <<rawDeals, activities, stagnantRun>>
walletVars == <<contacts, walletRun>>
hookVars == <<enabled, channelRef, liveChannels, isConnected, hookPc, hasCleanup, nextChannel>>
rtVars == <<pendingInvalidations, pendingInvalidateOnly, pendingBoardStagesInsertCount,
            flushScheduled, microtasks, debounceTimer, lastPass, owed, sinceEvent, runKeys,
            hookVars>>
vars == <<now, cacheVars, queueVars, analyzerVars, stagnantVars, walletVars, rtVars>>

\* ------------------------------------------------------------- data
Colls == {"boards", "activities", "deals"}

NoId == <<"none", 0, 0>>
SrvId(n) == <<"srv", n, 0>>
IsTemp(id) == id[1] = "temp"

\* A record of a collection: its id, the date activities are sorted by and one
\* mutable attribute (a board's content, an activity's `completed`).
Rec(id, date, val) == [id |-> id, date |-> date, val |-> val]
NoRec == Rec(NoId, 0, 0)

Dates == {1, 2}

NoData == [has |-> FALSE, list |-> <<>>]
Data(l) == [has |-> TRUE, list |-> l]

\* `(old = []) => ...`: the updater's default parameter.
OldOrEmpty(c) == IF c.has THEN c.list ELSE <<>>

RECURSIVE Filter(_, _)
\* list.filter(r => r.id !== id)
Filter(l, id) ==
    IF l = <<>> THEN <<>>
    ELSE IF Head(l).id = id THEN Filter(Tail(l), id)
         ELSE <<Head(l)>> \o Filter(Tail(l), id)

\* list.some(r => r.id === id)
Some(l, id) == \E i \in 1..Len(l) : l[i].id = id

CountId(l, id) == Cardinality({i \in 1..Len(l) : l[i].id = id})

\* list.map(r => r.id === id ? {...r, val} : r)
MapVal(l, id, v) == [i \in 1..Len(l) |-> IF l[i].id = id THEN [l[i] EXCEPT !.val = v] ELSE l[i]]

\* list.map(r => r.id === id ? {...r, completed: !r.completed} : r)
MapToggle(l, id) == [i \in 1..Len(l) |-> IF l[i].id = id THEN [l[i] EXCEPT !.val = 1 - @] ELSE l[i]]

RECURSIVE SortInsert(_, _)
SortInsert(sorted, x) ==
    IF sorted = <<>> THEN <<x>>
    ELSE IF Head(sorted).date <= x.date THEN <<Head(sorted)>> \o SortInsert(Tail(sorted), x)
         ELSE <<x>> \o sorted

RECURSIVE sortActivitiesSmart(_)
\* A stable sort of the activities by date.
sortActivitiesSmart(l) ==
    IF l = <<>> THEN <<>>
    ELSE SortInsert(sortActivitiesSmart(SubSeq(l, 1, Len(l) - 1)), l[Len(l)])

\* ------------------------------------------------------------- hooks
BoardHooks == {"useCreateBoard", "useUpdateBoard", "useDeleteBoard", "useDeleteBoardWithMove",
               "useAddBoardStage", "useUpdateBoardStage", "useDeleteBoardStage"}
ActivityHooks == {"useCreateActivity", "useUpdateActivity", "useToggleActivity", "useDeleteActivity"}
Hooks == BoardHooks \cup ActivityHooks
CreateHooks == {"useCreateBoard", "useCreateActivity"}

\* The list a hook reads and writes: queryKeys.boards.lists() / queryKeys.activities.lists().
CollOf(h) == IF h \in BoardHooks THEN "boards" ELSE "activities"
HooksOf(c) == {h \in Hooks : CollOf(h) = c}

\* The hooks that define onMutate / onError (the stage hooks and delete-with-move
\* define mutationFn and onSettled only).
HasOnMutate(h) == h \in {"useCreateBoard", "useUpdateBoard", "useDeleteBoard",
                         "useCreateActivity", "useUpdateActivity", "useToggleActivity",
                         "useDeleteActivity"}

\* Variant: deleting a board invalidates the deals only.
SettledKeysDealsOnly(h) ==
    IF h \in {"useDeleteBoard", "useDeleteBoardWithMove"} THEN {"deals"}
    ELSE {CollOf(h)}

\* Variant: onSettled invalidates nothing.
SettledKeysNone(h) == {}

\* onSettled: the query keys it invalidates.
SettledKeys(h) ==
    IF h \in {"useDeleteBoard", "useDeleteBoardWithMove"} THEN {"boards", "deals"}
    ELSE {CollOf(h)}

\* `temp-${Date.now()}-${Math.random()...}` (boards: the random suffix makes it
\* fresh, modelled by the call's number) and `temp-${Date.now()}` (activities).
TempIdOf(h, t, m) == IF h = "useCreateBoard" THEN <<"temp", t, m>> ELSE <<"temp", t, 0>>

\* Variant: onMutate leaves the cached list as it is.
OnMutateEditNone(h, old, tempRec, target) == old

\* The optimistic edit of onMutate, applied to `old` (the cached list, [] when undefined).
OnMutateEdit(h, old, tempRec, target) ==
    CASE h = "useCreateBoard"     -> <<tempRec>> \o old
      [] h = "useUpdateBoard"     -> MapVal(old, target, 1)
      [] h = "useDeleteBoard"     -> Filter(old, target)
      [] h = "useCreateActivity"  -> sortActivitiesSmart(old \o <<tempRec>>)
      [] h = "useUpdateActivity"  -> sortActivitiesSmart(MapVal(old, target, 1))
      [] h = "useToggleActivity"  -> MapToggle(old, target)
      [] h = "useDeleteActivity"  -> Filter(old, target)
      [] OTHER                    -> old

\* useCreateBoard.onSuccess: drop the temporary board, add the server's unless present.
OnSuccessBoard(old, tempId, data) ==
    LET withoutTemp == Filter(old, tempId)
        already == Some(withoutTemp, data.id)
    IN IF already THEN withoutTemp ELSE <<data>> \o withoutTemp

\* Variant: the server's record is added without looking for it in the list.
OnSuccessActivityNoCheck(old, tempId, data) ==
    sortActivitiesSmart(Filter(old, tempId) \o <<data>>)

\* useCreateActivity.onSuccess: keep the list when the server's record is present,
\* otherwise replace the temporary activity by it; re-sort.
OnSuccessActivity(old, tempId, data) ==
    IF Some(old, data.id) THEN sortActivitiesSmart(old)
    ELSE sortActivitiesSmart(Filter(old, tempId) \o <<data>>)

\* onSuccess of a hook; only the create hooks define one.
OnSuccessEdit(h, c, tempId, data) ==
    CASE h = "useCreateBoard"    -> Data(OnSuccessBoard(OldOrEmpty(c), tempId, data))
      [] h = "useCreateActivity" -> Data(OnSuccessActivity(OldOrEmpty(c), tempId, data))
      [] OTHER                   -> c

\* Variant: onError leaves the cached list as it is.
OnErrorRestoreKeep(cur, snapshot) == cur

\* onError: `if (context?.previousX) setQueryData(key, context.previousX)`.
\* An array is truthy, undefined is not.
OnErrorRestore(cur, snapshot) == IF snapshot.has THEN snapshot ELSE cur

\* What the remote store does with a successful write.
ServerApply(h, list, data, target) ==
    CASE h \in CreateHooks -> list \o <<data>>
      [] h \in {"useUpdateBoard", "useUpdateActivity"} -> MapVal(list, target, 1)
      [] h \in {"useDeleteBoard", "useDeleteBoardWithMove", "useDeleteActivity"} -> Filter(list, target)
      [] OTHER -> MapToggle(list, target)

\* queryFn: boardsService.getAll() / activitiesService.getAll() + sortActivitiesSmart.
QueryFn(c, list) == IF c = "activities" THEN sortActivitiesSmart(list) ELSE list

\* ------------------------------------------------------------- query client
Idle == [st |-> "idle", list |-> <<>>]
Fetching == [st |-> "fetching", list |-> <<>>]

\* invalidateQueries({queryKey}): mark the mounted query invalidated and refetch it
\* (an in-flight fetch is cancelled and restarted), when its key is under `keys`.
InvalidateQueries(keys) ==
    IF coll \in keys
    THEN invalidated' = TRUE /\ fetch' = Fetching
    ELSE UNCHANGED <<invalidated, fetch>>

\* ------------------------------------------------------------- mutation slots
Muts == 1..MaxMutations

IdleMut == [pc |-> "idle", hook |-> "none", target |-> NoId, tempId |-> NoId,
            snapshot |-> NoData, ok |-> FALSE, data |-> NoRec, already |-> FALSE,
            startedAt |-> 0]
DoneMut == [IdleMut EXCEPT !.pc = "done"]

IdsIn(l) == {l[i].id : i \in 1..Len(l)}

\* The calls a user can make: a create, or an edit of a record shown in the list.
Targets(h) == IF h \in CreateHooks THEN {NoId} ELSE IdsIn(OldOrEmpty(cache))
DatesOf(h) == IF h = "useCreateActivity" THEN Dates ELSE {0}

\* mutate(): onMutate (cancelQueries, snapshot, optimistic edit), after which the
\* mutationFn's request is on its way.
Mutate(m, h, target, date) ==
    LET tempId == IF h \in CreateHooks THEN TempIdOf(h, now, m) ELSE NoId
        tempRec == Rec(tempId, date, 0)
    IN
    /\ h \in HooksOf(coll)
    /\ mut[m].pc = "idle"
    /\ \A k \in Muts : k < m => mut[k].pc # "idle"
    /\ now < MaxNow
    /\ mut' = [mut EXCEPT ![m] = [pc |-> "pending", hook |-> h, target |-> target,
                                  tempId |-> tempId,
                                  snapshot |-> IF HasOnMutate(h) THEN cache ELSE NoData,
                                  ok |-> FALSE, data |-> Rec(NoId, date, 0), already |-> FALSE,
                                  startedAt |-> now]]
    /\ IF HasOnMutate(h)
       THEN /\ cache' = Data(OnMutateEdit(h, OldOrEmpty(cache), tempRec, target))
            /\ fetch' = Idle
       ELSE UNCHANGED <<cache, fetch>>
    /\ UNCHANGED <<queueVars, rtVars, analyzerVars, stagnantVars, walletVars>>
    /\ UNCHANGED <<now, coll, server, nextId, invalidated, deal, companies, rtLeft>>

\* mutationFn's remote write reaches the store and succeeds: the store applies it
\* and answers (a create answers with the record under its new id). A remote
\* round trip does not complete within the millisecond it was started in.
RemoteWriteOk(m) ==
    LET h == mut[m].hook
        data == Rec(SrvId(nextId), mut[m].data.date, 0)
    IN
    /\ mut[m].pc = "pending"
    /\ now > mut[m].startedAt
    /\ server' = ServerApply(h, server, data, mut[m].target)
    /\ nextId' = IF h \in CreateHooks THEN nextId + 1 ELSE nextId
    /\ mut' = [mut EXCEPT ![m].pc = "responded", ![m].ok = TRUE,
                          ![m].data = IF h \in CreateHooks THEN data ELSE NoRec]
    /\ UNCHANGED <<queueVars, rtVars, analyzerVars, stagnantVars, walletVars>>
    /\ UNCHANGED <<now, coll, cache, invalidated, fetch, deal, companies, rtLeft>>

\* The remote write fails: `if (error) throw error`.
RemoteWriteFail(m) ==
    /\ mut[m].pc = "pending"
    /\ now > mut[m].startedAt
    /\ mut' = [mut EXCEPT ![m].pc = "responded", ![m].ok = FALSE, ![m].data = NoRec]
    /\ UNCHANGED <<queueVars, rtVars, analyzerVars, stagnantVars, walletVars>>
    /\ UNCHANGED <<now, coll, server, nextId, cache, invalidated, fetch, deal, companies, rtLeft>>

\* onSuccess. useCreateActivity's also invalidates activities.all.
OnSuccess(m) ==
    LET h == mut[m].hook IN
    /\ mut[m].pc = "responded"
    /\ mut[m].ok
    /\ cache' = OnSuccessEdit(h, cache, mut[m].tempId, mut[m].data)
    /\ InvalidateQueries(IF h = "useCreateActivity" THEN {"activities"} ELSE {})
    /\ mut' = [mut EXCEPT ![m].pc = "handled",
                          ![m].already = h \in CreateHooks /\ Some(OldOrEmpty(cache), mut[m].data.id)]
    /\ UNCHANGED <<queueVars, rtVars, analyzerVars, stagnantVars, walletVars>>
    /\ UNCHANGED <<now, coll, server, nextId, deal, companies, rtLeft>>

\* onError: roll the list back to the snapshot.
OnError(m) ==
    LET h == mut[m].hook IN
    /\ mut[m].pc = "responded"
    /\ ~mut[m].ok
    /\ cache' = IF HasOnMutate(h) THEN OnErrorRestore(cache, mut[m].snapshot) ELSE cache
    /\ mut' = [mut EXCEPT ![m].pc = "handled"]
    /\ UNCHANGED <<queueVars, rtVars, analyzerVars, stagnantVars, walletVars>>
    /\ UNCHANGED <<now, coll, server, nextId, invalidated, fetch, deal, companies, rtLeft>>

\* onSettled: invalidate the hook's query keys.
OnSettled(m) ==
    /\ mut[m].pc = "handled"
    /\ InvalidateQueries(SettledKeys(mut[m].hook))
    /\ mut' = [mut EXCEPT ![m] = [DoneMut EXCEPT !.hook = mut[m].hook, !.ok = mut[m].ok]]
    /\ UNCHANGED <<queueVars, rtVars, analyzerVars, stagnantVars, walletVars>>
    /\ UNCHANGED <<now, coll, server, nextId, cache, deal, companies, rtLeft>>

\* A realtime change event's flush invalidates the collection's queries with a refetch.
RealtimeInvalidate ==
    /\ rtLeft > 0
    /\ rtLeft' = rtLeft - 1
    /\ InvalidateQueries({coll})
    /\ UNCHANGED <<queueVars, rtVars, analyzerVars, stagnantVars, walletVars>>
    /\ UNCHANGED <<now, coll, server, nextId, cache, mut, deal, companies>>

\* The queryFn's getAll() reads the remote store.
FetchRead ==
    /\ fetch.st = "fetching"
    /\ fetch' = [st |-> "response", list |-> QueryFn(coll, server)]
    /\ UNCHANGED <<queueVars, rtVars, analyzerVars, stagnantVars, walletVars>>
    /\ UNCHANGED <<now, coll, server, nextId, cache, invalidated, mut, deal, companies, rtLeft>>

\* The fetched list arrives and replaces the cached one.
FetchComplete ==
    /\ fetch.st = "response"
    /\ cache' = Data(fetch.list)
    /\ invalidated' = FALSE
    /\ fetch' = Idle
    /\ UNCHANGED <<queueVars, rtVars, analyzerVars, stagnantVars, walletVars>>
    /\ UNCHANGED <<now, coll, server, nextId, mut, deal, companies, rtLeft>>

Tick ==
    /\ now < MaxNow
    /\ now' = now + 1
    /\ UNCHANGED <<cacheVars, queueVars, rtVars, analyzerVars, stagnantVars, walletVars>>

\* ------------------------------------------------------------- CRMContext.addDeal
Deals == 1..MaxDeals

NoName == "none"
AutoCompany == "Nova Empresa (Auto)"
CompanyNames == {"Acme"}

\* String.prototype.toLowerCase on the names used.
Lower(n) == CASE n = "Acme" -> "acme" [] n = "ACME" -> "acme" [] OTHER -> n

IdleDeal == [pc |-> "idle", tempId |-> NoId, hasBoard |-> FALSE, coName |-> NoName,
             newContact |-> FALSE, created |-> NoRec, already |-> FALSE, startedAt |-> 0]
EndDeal(pc) == [IdleDeal EXCEPT !.pc = pc]

\* "Handle Company": whether addCompany is awaited, given the `companies` the
\* callback closed over.
NeedsAddCompany(companyName, companyKnown, seen) ==
    IF companyName # NoName
    THEN ~\E i \in 1..Len(seen) : Lower(seen[i]) = Lower(companyName)
    ELSE ~companyKnown

\* The await that follows the company step: addContact when the call names a contact
\* that matches no existing one by e-mail, otherwise addDealState.
AfterCompany(newContact) == IF newContact THEN "awaitContact" ELSE "awaitDeal"

\* Reconcile with the created deal: drop the optimistic one, add the server's unless present.
ReconcileCreated(old, tempId, view) ==
    LET withoutTemp == Filter(old, tempId)
        already == Some(withoutTemp, view.id)
    IN IF already THEN withoutTemp ELSE <<view>> \o withoutTemp

\* Reconcile after addDealState returned no deal.
ReconcileFailed(old, tempId) == Filter(old, tempId)

\* addDeal up to its first await: the optimistic insert (when the deal names a
\* board) and the company lookup.
AddDealStart(d, hasBoard, companyName, companyKnown, newContact) ==
    LET tempId == <<"temp", now, 0>>
        needs == NeedsAddCompany(companyName, companyKnown, companies)
    IN
    /\ coll = "deals"
    /\ companyKnown => companies # <<>>
    /\ deal[d].pc = "idle"
    /\ \A k \in Deals : k < d => deal[k].pc # "idle"
    /\ now < MaxNow
    /\ cache' = IF hasBoard THEN Data(<<Rec(tempId, 0, 0)>> \o OldOrEmpty(cache)) ELSE cache
    /\ deal' = [deal EXCEPT ![d] = [pc |-> IF needs THEN "awaitCompany" ELSE AfterCompany(newContact),
                                    tempId |-> tempId, hasBoard |-> hasBoard,
                                    coName |-> IF companyName # NoName THEN companyName ELSE AutoCompany,
                                    newContact |-> newContact, created |-> NoRec, already |-> FALSE,
                                    startedAt |-> now]]
    /\ UNCHANGED <<queueVars, rtVars, analyzerVars, stagnantVars, walletVars>>
    /\ UNCHANGED <<now, coll, server, nextId, invalidated, fetch, mut, companies, rtLeft>>

\* addDeal keeps no copy of the list it edits: it has no `previousDeals`, and
\* takes its temporary deal out again by id.
PreviousDeals == NoData

\* `await addCompany(...)` resolves, with the new company or with null.
AddCompanyReturns(d, ok) ==
    /\ deal[d].pc = "awaitCompany"
    /\ now > deal[d].startedAt
    /\ companies' = IF ok THEN Append(companies, deal[d].coName) ELSE companies
    /\ deal' = [deal EXCEPT ![d].pc = AfterCompany(deal[d].newContact)]
    /\ UNCHANGED <<queueVars, rtVars, analyzerVars, stagnantVars, walletVars>>
    /\ UNCHANGED <<now, coll, server, nextId, cache, invalidated, fetch, mut, rtLeft>>

\* `await addContact(...)` resolves.
AddContactReturns(d) ==
    /\ deal[d].pc = "awaitContact"
    /\ now > deal[d].startedAt
    /\ deal' = [deal EXCEPT ![d].pc = "awaitDeal"]
    /\ UNCHANGED <<queueVars, rtVars, analyzerVars, stagnantVars, walletVars>>
    /\ UNCHANGED <<now, coll, server, nextId, cache, invalidated, fetch, mut, companies, rtLeft>>

\* One of the awaited calls rejects: addDeal has no try/catch around its awaits, so
\* its promise rejects and nothing after the await runs.
AddDealRejects(d) ==
    /\ deal[d].pc \in {"awaitCompany", "awaitContact", "awaitDeal", "awaitActivity"}
    /\ now > deal[d].startedAt
    /\ deal' = [deal EXCEPT ![d] = [EndDeal("rejected") EXCEPT !.tempId = deal[d].tempId,
                                                            !.hasBoard = deal[d].hasBoard]]
    /\ UNCHANGED <<queueVars, rtVars, analyzerVars, stagnantVars, walletVars>>
    /\ UNCHANGED <<now, coll, server, nextId, cache, invalidated, fetch, mut, companies, rtLeft>>

\* addDealState's remote write creates the deal in the store.
DealWriteOk(d) ==
    LET data == Rec(SrvId(nextId), 0, 0) IN
    /\ deal[d].pc = "awaitDeal"
    /\ now > deal[d].startedAt
    /\ server' = IF deal[d].hasBoard THEN Append(server, data) ELSE server
    /\ nextId' = nextId + 1
    /\ deal' = [deal EXCEPT ![d].pc = "dealReturned", ![d].created = data]
    /\ UNCHANGED <<queueVars, rtVars, analyzerVars, stagnantVars, walletVars>>
    /\ UNCHANGED <<now, coll, cache, invalidated, fetch, mut, companies, rtLeft>>

\* addDealState resolves with null (the creation failed without throwing).
DealWriteNull(d) ==
    /\ deal[d].pc = "awaitDeal"
    /\ now > deal[d].startedAt
    /\ deal' = [deal EXCEPT ![d].pc = "dealReturned", ![d].created = NoRec]
    /\ UNCHANGED <<queueVars, rtVars, analyzerVars, stagnantVars, walletVars>>
    /\ UNCHANGED <<now, coll, server, nextId, cache, invalidated, fetch, mut, companies, rtLeft>>

\* After `await addDealState`: replace or remove the optimistic deal; with a created
\* deal, go on to `await addActivity`, otherwise addDeal returns.
Reconcile(d) ==
    LET made == deal[d].created # NoRec IN
    /\ deal[d].pc = "dealReturned"
    /\ cache' = IF ~deal[d].hasBoard THEN cache
                ELSE IF made THEN Data(ReconcileCreated(OldOrEmpty(cache), deal[d].tempId, deal[d].created))
                ELSE Data(ReconcileFailed(OldOrEmpty(cache), deal[d].tempId))
    /\ deal' = [deal EXCEPT ![d].pc = IF made THEN "awaitActivity" ELSE "done",
                            ![d].already = made /\ deal[d].hasBoard
                                           /\ Some(OldOrEmpty(cache), deal[d].created.id)]
    /\ UNCHANGED <<queueVars, rtVars, analyzerVars, stagnantVars, walletVars>>
    /\ UNCHANGED <<now, coll, server, nextId, invalidated, fetch, mut, companies, rtLeft>>

\* `await addActivity(...)` resolves and addDeal returns.
AddActivityReturns(d) ==
    /\ deal[d].pc = "awaitActivity"
    /\ deal' = [deal EXCEPT ![d].pc = "done"]
    /\ UNCHANGED <<queueVars, rtVars, analyzerVars, stagnantVars, walletVars>>
    /\ UNCHANGED <<now, coll, server, nextId, cache, invalidated, fetch, mut, companies, rtLeft>>

\* ------------------------------------------------------------- decision queue
\* An absent optional field (undefined). A timestamp stands for the ISO string
\* that denotes it (toISOString / Date.parse of such a string); -1 is an absent one.
None == "none"
NoTime == -1

Priorities == {"critical", "high", "medium", "low"}
PRIORITY_ORDER == [critical |-> 0, high |-> 1, medium |-> 2, low |-> 3]

\* Keep only last 500 entries.
ProcessedCap == 500

\* `${type}:${dealId || contactId || activityId}`
DedupeKey(d) ==
    <<d.type, IF d.dealId # None THEN d.dealId
              ELSE IF d.contactId # None THEN d.contactId
              ELSE d.activityId>>

\* processed.has(key)
HasProcessed(p, key) == \E i \in 1..Len(p) : p[i] = key

\* The predicate of `state.decisions.find(...)`: a similar pending decision.
Similar(d, decision) ==
    /\ d.status = "pending"
    /\ d.type = decision.type
    /\ d.dealId = decision.dealId
    /\ d.contactId = decision.contactId

\* Variant: the processed keys are not consulted.
AddDecisionStateIgnoreProcessed(q, p, decision) ==
    IF \E i \in 1..Len(q) : Similar(q[i], decision) THEN q
    ELSE Append(q, decision)

\* addDecision: the stored list after the call.
AddDecisionState(q, p, decision) ==
    IF HasProcessed(p, DedupeKey(decision)) THEN q
    ELSE IF \E i \in 1..Len(q) : Similar(q[i], decision) THEN q
    ELSE Append(q, decision)

RECURSIVE AddDecisionsLoop(_, _, _)
\* addDecisions: the loop over the batch, on the state loaded once.
AddDecisionsLoop(q, p, batch) ==
    IF batch = <<>> THEN q
    ELSE LET decision == Head(batch)
             skip == \/ HasProcessed(p, DedupeKey(decision))
                     \/ \E i \in 1..Len(q) : Similar(q[i], decision)
         IN AddDecisionsLoop(IF skip THEN q ELSE Append(q, decision), p, Tail(batch))

RECURSIVE AddDecisionsAdded(_, _, _)
\* addDecisions: the counter `added` the loop returns.
AddDecisionsAdded(q, p, batch) ==
    IF batch = <<>> THEN 0
    ELSE LET decision == Head(batch)
             skip == \/ HasProcessed(p, DedupeKey(decision))
                     \/ \E i \in 1..Len(q) : Similar(q[i], decision)
         IN (IF skip THEN 0 ELSE 1)
            + AddDecisionsAdded(IF skip THEN q ELSE Append(q, decision), p, Tail(batch))

\* addProcessedDecision: Set.add, then keep the last ProcessedCap entries.
AddProcessedDecision(p, key) ==
    LET arr == IF HasProcessed(p, key) THEN p ELSE Append(p, key)
    IN IF Len(arr) > ProcessedCap THEN SubSeq(arr, Len(arr) - ProcessedCap + 1, Len(arr)) ELSE arr

\* Variant: the snooze time is not looked at.
PendingFilterNoSnooze(d, nowTs) ==
    /\ d.status = "pending"
    /\ ~(d.expiresAt # NoTime /\ d.expiresAt < nowTs)

\* The filter of getPendingDecisions.
PendingFilter(d, nowTs) ==
    IF d.status # "pending" THEN FALSE
    ELSE IF d.expiresAt # NoTime /\ d.expiresAt < nowTs THEN FALSE
    ELSE IF d.snoozeUntil # NoTime /\ d.snoozeUntil > nowTs THEN FALSE
    ELSE TRUE

\* Variant: within a priority, older first.
ComparePendingOldestFirst(a, b) ==
    LET priorityDiff == PRIORITY_ORDER[a.priority] - PRIORITY_ORDER[b.priority]
    IN IF priorityDiff # 0 THEN priorityDiff ELSE a.createdAt - b.createdAt

\* The comparator of getPendingDecisions: priority first, then newer first.
ComparePending(a, b) ==
    LET priorityDiff == PRIORITY_ORDER[a.priority] - PRIORITY_ORDER[b.priority]
    IN IF priorityDiff # 0 THEN priorityDiff ELSE b.createdAt - a.createdAt

RECURSIVE FilterPending(_, _)
FilterPending(q, nowTs) ==
    IF q = <<>> THEN <<>>
    ELSE IF PendingFilter(Head(q), nowTs) THEN <<Head(q)>> \o FilterPending(Tail(q), nowTs)
         ELSE FilterPending(Tail(q), nowTs)

RECURSIVE InsertPending(_, _)
InsertPending(sorted, x) ==
    IF sorted = <<>> THEN <<x>>
    ELSE IF ComparePending(Head(sorted), x) <= 0 THEN <<Head(sorted)>> \o InsertPending(Tail(sorted), x)
         ELSE <<x>> \o sorted

RECURSIVE SortPending(_)
\* Array.prototype.sort with the comparator (a stable sort).
SortPending(l) ==
    IF l = <<>> THEN <<>>
    ELSE InsertPending(SortPending(SubSeq(l, 1, Len(l) - 1)), l[Len(l)])

GetPendingDecisions(q, nowTs) == SortPending(FilterPending(q, nowTs))

\* An action payload: the fields it has, with their values.
Fields == {"title", "date"}
Values == {1, 2}
Payloads == UNION {[fs -> Values] : fs \in SUBSET Fields}
EmptyPayload == [f \in {} |-> 1]
ActionTypes == {"CREATE_ACTIVITY", "MOVE_DEAL"}
Action(type, payload) == [type |-> type, payload |-> payload]
\* The optional `modifiedPayload` argument: missing, or a partial payload.
NoOverride == [given |-> FALSE, payload |-> EmptyPayload]
Override(payload) == [given |-> TRUE, payload |-> payload]
Overrides == {NoOverride} \cup {Override(p) : p \in Payloads}

\* Variant: the suggested payload wins over the override.
SpreadSuggestedWins(a, b) ==
    [f \in (DOMAIN a) \cup (DOMAIN b) |-> IF f \in DOMAIN a THEN a[f] ELSE b[f]]

\* { ...a, ...b }
Spread(a, b) ==
    [f \in (DOMAIN a) \cup (DOMAIN b) |-> IF f \in DOMAIN b THEN b[f] ELSE a[f]]

\* finalPayload = modifiedPayload ? { ...payload, ...modifiedPayload } : payload
FinalPayload(payload, modifiedPayload) ==
    IF modifiedPayload.given THEN Spread(payload, modifiedPayload.payload) ELSE payload

\* executeAction: the placeholder result.
ExecuteAction(actionType, payload) ==
    [success |-> TRUE, error |-> "", actionType |-> actionType, payload |-> payload]
ApproveError(msg) ==
    [success |-> FALSE, error |-> msg, actionType |-> "", payload |-> EmptyPayload]

\* updateDecisionStatus: the stored list and the processed keys after the call.
UpdateStatusQueue(q, id, status, nowTs) ==
    [i \in 1..Len(q) |-> IF q[i].id = id /\ (\A j \in 1..(i - 1) : q[j].id # id)
                         THEN [q[i] EXCEPT !.status = status, !.decidedAt = nowTs]
                         ELSE q[i]]

UpdateStatusProcessed(q, p, id, status) ==
    IF (\E i \in 1..Len(q) : q[i].id = id) /\ status \in {"approved", "rejected"}
    THEN AddProcessedDecision(p, DedupeKey(q[CHOOSE i \in 1..Len(q) : q[i].id = id]))
    ELSE p

\* The keys updateDecisionStatus has passed to addProcessedDecision so far.
UpdateStatusRecorded(q, r, id, status) ==
    IF (\E i \in 1..Len(q) : q[i].id = id) /\ status \in {"approved", "rejected"}
    THEN r \cup {DedupeKey(q[CHOOSE i \in 1..Len(q) : q[i].id = id])}
    ELSE r

NoCall == [op |-> "none", args |-> <<>>, before |-> <<>>, processedBefore |-> <<>>,
           at |-> 0, ret |-> <<>>]
Call(op, args, ret) == [op |-> op, args |-> args, before |-> decisions,
                        processedBefore |-> processed, at |-> now, ret |-> ret]
\* A call of which only the name is kept.
Called(op) == [NoCall EXCEPT !.op = op]

\* What a decision relates to: the situations the analyzers report.
Rel(type, dealId, contactId, activityId) ==
    [type |-> type, dealId |-> dealId, contactId |-> contactId, activityId |-> activityId]
Relations == {Rel("t1", "d1", "c1", None), Rel("t1", "d1", "c2", None),
              Rel("t1", None, "c1", None), Rel("t1", None, None, "a1"),
              Rel("t1", None, None, "a2"), Rel("t2", "d1", "c1", None)}

MkDecision(id, rel, priority, status, createdAt, expiresAt, snoozeUntil) ==
    [id |-> id, type |-> rel.type, dealId |-> rel.dealId, contactId |-> rel.contactId,
     activityId |-> rel.activityId, priority |-> priority, status |-> status,
     createdAt |-> createdAt, expiresAt |-> expiresAt, snoozeUntil |-> snoozeUntil,
     decidedAt |-> NoTime, suggestedAction |-> Action("CREATE_ACTIVITY", EmptyPayload)]

\* A fresh decision id (the analyzers generate unique ids): the k-th unused one.
FreshId(q, k) ==
    LET used == {q[i].id : i \in 1..Len(q)}
        free == (1..(Len(q) + k)) \ used
    IN CHOOSE n \in free : Cardinality({f \in free : f < n}) = k - 1
NewDecision(rel, k) == MkDecision(FreshId(decisions, k), rel, "medium", "pending", now, NoTime, NoTime)

Batches == {<<>>} \cup {<<r>> : r \in Relations} \cup {<<r1, r2>> : r1 \in Relations, r2 \in Relations}
KnownIds == {0} \cup {decisions[i].id : i \in 1..Len(decisions)}

AddDecision(rel) ==
    LET decision == NewDecision(rel, 1) IN
    /\ Len(AddDecisionState(decisions, processed, decision)) <= MaxQueue
    /\ decisions' = AddDecisionState(decisions, processed, decision)
    /\ call' = Call("addDecision", <<decision>>, <<>>)
    /\ UNCHANGED <<now, cacheVars, rtVars, analyzerVars, stagnantVars, walletVars, processed, recorded>>

AddDecisions(rels) ==
    LET batch == [i \in 1..Len(rels) |-> NewDecision(rels[i], i)] IN
    /\ Len(AddDecisionsLoop(decisions, processed, batch)) <= MaxQueue
    /\ decisions' = AddDecisionsLoop(decisions, processed, batch)
    /\ call' = Call("addDecisions", batch, AddDecisionsAdded(decisions, processed, batch))
    /\ UNCHANGED <<now, cacheVars, rtVars, analyzerVars, stagnantVars, walletVars, processed, recorded>>

\* Variant: only an approved or rejected decision counts as processed.
AlreadyProcessedDecidedOnly(decision) == decision.status \in {"approved", "rejected"}

\* `if (decision.status !== 'pending')`
AlreadyProcessed(decision) == decision.status # "pending"

\* approveDecision(id, modifiedPayload): a missing or non-pending decision is an
\* error; otherwise the action is executed with the merged payload and, as
\* executeAction succeeds, the decision is marked approved.
ApproveDecision(id, modifiedPayload) ==
    LET found == \E i \in 1..Len(decisions) : decisions[i].id = id
        decision == decisions[CHOOSE i \in 1..Len(decisions) :
                                  decisions[i].id = id /\ \A k \in 1..(i - 1) : decisions[k].id # id]
        pending == found /\ ~AlreadyProcessed(decision)
        result == IF ~found THEN ApproveError("Decisão não encontrada")
                  ELSE IF ~pending THEN ApproveError("Decisão já foi processada")
                  ELSE ExecuteAction(decision.suggestedAction.type,
                                     FinalPayload(decision.suggestedAction.payload, modifiedPayload))
    IN
    /\ decisions' = IF pending THEN UpdateStatusQueue(decisions, id, "approved", now) ELSE decisions
    /\ processed' = IF pending THEN UpdateStatusProcessed(decisions, processed, id, "approved") ELSE processed
    /\ recorded' = IF pending THEN UpdateStatusRecorded(decisions, recorded, id, "approved") ELSE recorded
    /\ call' = Call("approveDecision", <<[id |-> id, modifiedPayload |-> modifiedPayload]>>, result)
    /\ UNCHANGED <<now, cacheVars, rtVars, analyzerVars, stagnantVars, walletVars>>

\* rejectDecision: updateDecisionStatus(id, 'rejected').
RejectDecision(id) ==
    /\ decisions' = UpdateStatusQueue(decisions, id, "rejected", now)
    /\ processed' = UpdateStatusProcessed(decisions, processed, id, "rejected")
    /\ recorded' = UpdateStatusRecorded(decisions, recorded, id, "rejected")
    /\ call' = Called("rejectDecision")
    /\ UNCHANGED <<now, cacheVars, rtVars, analyzerVars, stagnantVars, walletVars>>

\* snoozeDecision(id, until)
SnoozeDecision(id, until) ==
    /\ decisions' = [i \in 1..Len(decisions) |->
                        IF decisions[i].id = id
                        THEN [decisions[i] EXCEPT !.status = "snoozed", !.snoozeUntil = until]
                        ELSE decisions[i]]
    /\ call' = Called("snoozeDecision")
    /\ UNCHANGED <<now, cacheVars, rtVars, analyzerVars, stagnantVars, walletVars, processed, recorded>>

\* One calendar day in milliseconds (setDate(getDate() - n) moves the date by n days).
Day == 86400000
\* clearCompleted(olderThanDays: number = 7)
DefaultOlderThanDays == 7

\* Variant: a pending decision expiring at this very millisecond is removed too.
ExpiredFilterInclusive(d, nowTs) ==
    IF d.status # "pending" THEN TRUE
    ELSE IF d.expiresAt # NoTime /\ d.expiresAt <= nowTs THEN FALSE
    ELSE TRUE

\* The filter of clearExpired: TRUE keeps the decision.
ExpiredFilter(d, nowTs) ==
    IF d.status # "pending" THEN TRUE
    ELSE IF d.expiresAt # NoTime /\ d.expiresAt < nowTs THEN FALSE
    ELSE TRUE

\* Variant: a decision decided exactly at the cutoff is removed too.
CompletedFilterInclusive(d, cutoff) ==
    IF d.status = "pending" THEN TRUE
    ELSE IF d.decidedAt # NoTime /\ d.decidedAt <= cutoff THEN FALSE
    ELSE TRUE

\* The filter of clearCompleted: TRUE keeps the decision.
CompletedFilter(d, cutoff) ==
    IF d.status = "pending" THEN TRUE
    ELSE IF d.decidedAt # NoTime /\ d.decidedAt < cutoff THEN FALSE
    ELSE TRUE

RECURSIVE KeepExpired(_, _)
KeepExpired(q, nowTs) ==
    IF q = <<>> THEN <<>>
    ELSE IF ExpiredFilter(Head(q), nowTs) THEN <<Head(q)>> \o KeepExpired(Tail(q), nowTs)
         ELSE KeepExpired(Tail(q), nowTs)

RECURSIVE KeepCompleted(_, _)
KeepCompleted(q, cutoff) ==
    IF q = <<>> THEN <<>>
    ELSE IF CompletedFilter(Head(q), cutoff) THEN <<Head(q)>> \o KeepCompleted(Tail(q), cutoff)
         ELSE KeepCompleted(Tail(q), cutoff)

\* clearExpired(): returns before - after.
ClearExpired ==
    /\ decisions' = KeepExpired(decisions, now)
    /\ call' = Call("clearExpired", <<>>, Len(decisions) - Len(KeepExpired(decisions, now)))
    /\ UNCHANGED <<now, cacheVars, rtVars, analyzerVars, stagnantVars, walletVars, processed, recorded>>

\* clearCompleted(olderThanDays): cutoff = now moved back by olderThanDays days.
ClearCompleted(olderThanDays) ==
    LET cutoff == now - olderThanDays * Day IN
    /\ decisions' = KeepCompleted(decisions, cutoff)
    /\ call' = Call("clearCompleted", <<olderThanDays>>, Len(decisions) - Len(KeepCompleted(decisions, cutoff)))
    /\ UNCHANGED <<now, cacheVars, rtVars, analyzerVars, stagnantVars, walletVars, processed, recorded>>

\* Variant: the processed keys are removed as well.
ClearAllWithProcessed ==
    /\ decisions' = <<>>
    /\ analyzerResults' = <<>>
    /\ lastAnalyzedAt' = NoTime
    /\ processed' = <<>>
    /\ call' = Called("clearAll")
    /\ UNCHANGED <<now, cacheVars, rtVars, stagnantVars, walletVars, recorded>>

\* clearAll(): saveState({ decisions: [], analyzerResults: [] }); the processed
\* keys are stored under another localStorage key and stay.
ClearAll ==
    /\ decisions' = <<>>
    /\ analyzerResults' = <<>>
    /\ lastAnalyzedAt' = NoTime
    /\ call' = Called("clearAll")
    /\ UNCHANGED <<now, cacheVars, rtVars, stagnantVars, walletVars, processed, recorded>>

\* `if (state.analyzerResults.length > 10) state.analyzerResults = state.analyzerResults.slice(-10)`
AnalyzerResultsCap == 10
AnalyzerResults == {"r1"}

\* saveAnalyzerResult(result): push, stamp lastAnalyzedAt, keep the last ten results.
SaveAnalyzerResult(result) ==
    LET pushed == Append(analyzerResults, result) IN
    /\ analyzerResults' = IF Len(pushed) > AnalyzerResultsCap
                          THEN SubSeq(pushed, Len(pushed) - AnalyzerResultsCap + 1, Len(pushed))
                          ELSE pushed
    /\ lastAnalyzedAt' = now
    /\ call' = Called("saveAnalyzerResult")
    /\ UNCHANGED <<now, cacheVars, rtVars, stagnantVars, walletVars, decisions, processed, recorded>>

\* getPendingDecisions()
GetPending ==
    /\ call' = Call("getPendingDecisions", <<>>, GetPendingDecisions(decisions, now))
    /\ UNCHANGED <<now, cacheVars, rtVars, analyzerVars, stagnantVars, walletVars, decisions, processed, recorded>>

\* ------------------------------------------------------------- useRealtimeSync
\* The tables of useRealtimeSyncKanban.
RtTables == {"deals", "board_stages"}
EventTypes == {"INSERT", "UPDATE", "DELETE"}

\* getTableQueryKeys: the query keys a table's changes invalidate.
getTableQueryKeys(table) ==
    CASE table = "deals"         -> {"deals.all", "dashboard.stats"}
      [] table = "contacts"      -> {"contacts.all"}
      [] table = "activities"    -> {"activities.all"}
      [] table = "boards"        -> {"boards.all"}
      [] table = "board_stages"  -> {"boards.all"}
      [] table = "crm_companies" -> {"companies.all"}
QueryKeys == UNION {getTableQueryKeys(t) : t \in RtTables}

NoTimer == -1
NoPass == [kind |-> "none", calls |-> {}, boardStagesInsertCount |-> 0]
\* One queryClient.invalidateQueries call.
Invalidation(queryKey, refetchType) == [queryKey |-> queryKey, refetchType |-> refetchType]
KeysOf(calls) == {c.queryKey : c \in calls}

NoChannel == 0
\* The hook mounted with enabled = true, its channel created and subscribed.
HookSubscribed ==
    /\ enabled = TRUE
    /\ channelRef = 1
    /\ liveChannels = {1}
    /\ isConnected = TRUE
    /\ hookPc = "idle"
    /\ hasCleanup = TRUE
    /\ nextChannel = 2

\* The component rendered for the first time, the effect about to run.
HookMounting ==
    /\ enabled \in BOOLEAN
    /\ channelRef = NoChannel
    /\ liveChannels = {}
    /\ isConnected = FALSE
    /\ hookPc = "setup"
    /\ hasCleanup = FALSE
    /\ nextChannel = 1

PendingAtRest ==
    /\ pendingInvalidations = {}
    /\ pendingInvalidateOnly = {}
    /\ pendingBoardStagesInsertCount = 0
    /\ flushScheduled = FALSE
    /\ microtasks = 0
    /\ debounceTimer = NoTimer
    /\ lastPass = NoPass
    /\ owed = {}
    /\ sinceEvent = 0
    /\ runKeys = {}

RealtimeAtRest ==
    /\ HookSubscribed
    /\ PendingAtRest

\* Variant: a microtask is queued for every INSERT event.
ScheduleFlushAlways(scheduled, queued) == queued + 1

\* `if (!flushScheduledRef.current) { ...; queueMicrotask(...) }`: the microtask queue after it.
ScheduleFlush(scheduled, queued) == IF ~scheduled THEN queued + 1 ELSE queued

\* Variant: a running timer is left as it is.
RearmKeepRunning(timer) == IF timer # NoTimer THEN timer ELSE DebounceMs

\* clearTimeout(debounceTimerRef.current); setTimeout(..., debounceMs)
Rearm(timer) == DebounceMs

\* refetchType: boardStagesInsertCount <= 1 ? 'all' : 'none'
InvalidateOnlyRefetch(count) == IF count <= 1 THEN "all" ELSE "none"

\* The invalidateQueries calls of the microtask flush.
FlushCalls(keysToFlush, keysInvalidateOnly, boardStagesInsertCount) ==
    {Invalidation(k, "all") : k \in keysToFlush}
    \cup {Invalidation(k, InvalidateOnlyRefetch(boardStagesInsertCount)) : k \in keysInvalidateOnly}

\* The invalidateQueries calls of the debounce timer's callback (default refetchType).
DebounceCalls(keys) == {Invalidation(k, "active") : k \in keys}

\* The postgres_changes handler, for one event of a subscribed table.
Receive(table, eventType) ==
    LET keys == getTableQueryKeys(table)
        stageInsert == eventType = "INSERT" /\ table = "board_stages"
    IN
    /\ stageInsert => pendingBoardStagesInsertCount < MaxBurst
    /\ pendingInvalidateOnly' = IF stageInsert THEN pendingInvalidateOnly \cup keys ELSE pendingInvalidateOnly
    /\ pendingBoardStagesInsertCount' =
          IF stageInsert THEN pendingBoardStagesInsertCount + 1 ELSE pendingBoardStagesInsertCount
    /\ pendingInvalidations' = IF stageInsert THEN pendingInvalidations ELSE pendingInvalidations \cup keys
    /\ IF eventType = "INSERT"
       THEN /\ flushScheduled' = TRUE
            /\ microtasks' = ScheduleFlush(flushScheduled, microtasks)
            /\ UNCHANGED <<debounceTimer, sinceEvent, runKeys>>
       ELSE /\ debounceTimer' = Rearm(debounceTimer)
            /\ sinceEvent' = 0
            /\ runKeys' = runKeys \cup keys
            /\ UNCHANGED <<flushScheduled, microtasks>>
    /\ owed' = owed \cup keys
    /\ lastPass' = NoPass
    /\ UNCHANGED <<now, cacheVars, queueVars, analyzerVars, stagnantVars, walletVars, hookVars>>

\* The queued microtask: runs when the current tick's synchronous code has ended.
Flush ==
    LET calls == FlushCalls(pendingInvalidations, pendingInvalidateOnly, pendingBoardStagesInsertCount) IN
    /\ microtasks > 0
    /\ microtasks' = microtasks - 1
    /\ flushScheduled' = FALSE
    /\ pendingInvalidations' = {}
    /\ pendingInvalidateOnly' = {}
    /\ pendingBoardStagesInsertCount' = 0
    /\ lastPass' = [kind |-> "flush", calls |-> calls,
                    boardStagesInsertCount |-> pendingBoardStagesInsertCount]
    /\ owed' = owed \ KeysOf(calls)
    /\ runKeys' = runKeys \ KeysOf(calls)
    /\ UNCHANGED <<debounceTimer, sinceEvent>>
    /\ UNCHANGED <<now, cacheVars, queueVars, analyzerVars, stagnantVars, walletVars, hookVars>>

\* The debounce timer's callback; timers run after the pending microtasks.
DebounceFire ==
    LET calls == DebounceCalls(pendingInvalidations) IN
    /\ debounceTimer = 0
    /\ microtasks = 0
    /\ debounceTimer' = NoTimer
    /\ pendingInvalidations' = {}
    /\ lastPass' = [kind |-> "debounce", calls |-> calls, boardStagesInsertCount |-> 0]
    /\ owed' = owed \ KeysOf(calls)
    /\ runKeys' = runKeys \ KeysOf(calls)
    /\ UNCHANGED <<pendingInvalidateOnly, pendingBoardStagesInsertCount, flushScheduled, microtasks, sinceEvent>>
    /\ UNCHANGED <<now, cacheVars, queueVars, analyzerVars, stagnantVars, walletVars, hookVars>>

\* A millisecond passes while the timer runs; a due callback runs before the next one.
TimerTick ==
    /\ microtasks = 0
    /\ debounceTimer > 0
    /\ debounceTimer' = debounceTimer - 1
    /\ sinceEvent' = IF sinceEvent <= DebounceMs THEN sinceEvent + 1 ELSE sinceEvent
    /\ UNCHANGED <<pendingInvalidations, pendingInvalidateOnly, pendingBoardStagesInsertCount,
                   flushScheduled, microtasks, lastPass, owed, runKeys>>
    /\ UNCHANGED <<now, cacheVars, queueVars, analyzerVars, stagnantVars, walletVars, hookVars>>

\* ---- the subscription effect (deps: enabled, JSON.stringify(tables), debounceMs)
MaxChannels == 3
ChannelStatuses == {"SUBSCRIBED", "CHANNEL_ERROR", "TIMED_OUT", "CLOSED"}

\* A render with changed deps: `enabled` becomes e (or stays, the table list or
\* debounceMs having changed). React then runs the previous run's cleanup, if it
\* returned one, and the effect again; pending microtasks have run by then.
DepsChange(e) ==
    /\ hookPc = "idle"
    /\ microtasks = 0
    /\ enabled' = e
    /\ hookPc' = IF hasCleanup THEN "cleanup" ELSE "setup"
    /\ UNCHANGED <<channelRef, liveChannels, isConnected, hasCleanup, nextChannel>>
    /\ UNCHANGED <<pendingInvalidations, pendingInvalidateOnly, pendingBoardStagesInsertCount,
                   flushScheduled, microtasks, debounceTimer, lastPass, owed, sinceEvent, runKeys>>
    /\ UNCHANGED <<now, cacheVars, queueVars, analyzerVars, stagnantVars, walletVars>>

\* The component unmounts: the last run's cleanup, if any, runs and nothing follows.
Unmount ==
    /\ hookPc = "idle"
    /\ microtasks = 0
    /\ hookPc' = IF hasCleanup THEN "unmounting" ELSE "unmounted"
    /\ UNCHANGED <<enabled, channelRef, liveChannels, isConnected, hasCleanup, nextChannel>>
    /\ UNCHANGED <<pendingInvalidations, pendingInvalidateOnly, pendingBoardStagesInsertCount,
                   flushScheduled, microtasks, debounceTimer, lastPass, owed, sinceEvent, runKeys>>
    /\ UNCHANGED <<now, cacheVars, queueVars, analyzerVars, stagnantVars, walletVars>>

\* Variant: the cleanup leaves the channel alone.
EffectCleanupKeepChannel ==
    /\ hookPc \in {"cleanup", "unmounting"}
    /\ debounceTimer' = NoTimer
    /\ isConnected' = FALSE
    /\ hasCleanup' = FALSE
    /\ hookPc' = IF hookPc = "cleanup" THEN "setup" ELSE "unmounted"
    /\ UNCHANGED <<enabled, nextChannel, liveChannels, channelRef>>
    /\ UNCHANGED <<pendingInvalidations, pendingInvalidateOnly, pendingBoardStagesInsertCount,
                   flushScheduled, microtasks, lastPass, owed, sinceEvent, runKeys>>
    /\ UNCHANGED <<now, cacheVars, queueVars, analyzerVars, stagnantVars, walletVars>>

\* The effect's cleanup function: clearTimeout of the debounce timer (the pending
\* sets are left as they are), removeChannel, channelRef.current = null,
\* setIsConnected(false).
EffectCleanup ==
    /\ hookPc \in {"cleanup", "unmounting"}
    /\ debounceTimer' = NoTimer
    /\ liveChannels' = IF channelRef # NoChannel THEN liveChannels \ {channelRef} ELSE liveChannels
    /\ channelRef' = NoChannel
    /\ isConnected' = FALSE
    /\ hasCleanup' = FALSE
    /\ hookPc' = IF hookPc = "cleanup" THEN "setup" ELSE "unmounted"
    /\ UNCHANGED <<enabled, nextChannel>>
    /\ UNCHANGED <<pendingInvalidations, pendingInvalidateOnly, pendingBoardStagesInsertCount,
                   flushScheduled, microtasks, lastPass, owed, sinceEvent, runKeys>>
    /\ UNCHANGED <<now, cacheVars, queueVars, analyzerVars, stagnantVars, walletVars>>

\* The effect's body: nothing when disabled; else remove the channel channelRef
\* still holds, create a channel, subscribe, keep it in channelRef and return the
\* cleanup function.
EffectSetup ==
    /\ hookPc = "setup"
    /\ enabled => nextChannel <= MaxChannels
    /\ hookPc' = "idle"
    /\ IF ~enabled
       THEN /\ hasCleanup' = FALSE
            /\ UNCHANGED <<channelRef, liveChannels, nextChannel>>
       ELSE /\ liveChannels' = (IF channelRef # NoChannel THEN liveChannels \ {channelRef}
                                ELSE liveChannels) \cup {nextChannel}
            /\ channelRef' = nextChannel
            /\ nextChannel' = nextChannel + 1
            /\ hasCleanup' = TRUE
    /\ UNCHANGED <<enabled, isConnected>>
    /\ UNCHANGED <<pendingInvalidations, pendingInvalidateOnly, pendingBoardStagesInsertCount,
                   flushScheduled, microtasks, debounceTimer, lastPass, owed, sinceEvent, runKeys>>
    /\ UNCHANGED <<now, cacheVars, queueVars, analyzerVars, stagnantVars, walletVars>>

\* The callback given to channel.subscribe, called with a status of a live channel.
SubscribeStatus(channel, status) ==
    /\ hookPc = "idle"
    /\ channel \in liveChannels
    /\ isConnected' = (status = "SUBSCRIBED")
    /\ UNCHANGED <<enabled, channelRef, liveChannels, hookPc, hasCleanup, nextChannel>>
    /\ UNCHANGED <<pendingInvalidations, pendingInvalidateOnly, pendingBoardStagesInsertCount,
                   flushScheduled, microtasks, debounceTimer, lastPass, owed, sinceEvent, runKeys>>
    /\ UNCHANGED <<now, cacheVars, queueVars, analyzerVars, stagnantVars, walletVars>>

\* A change event delivered by a live channel to its postgres_changes handler.
ChannelEvent(table, eventType) ==
    /\ hookPc = "idle"
    /\ liveChannels # {}
    /\ Receive(table, eventType)

\* ------------------------------------------------------------- CRMContext.checkWalletHealth
\* thirtyDaysAgo.setDate(thirtyDaysAgo.getDate() - 30)
WalletDays == 30
ChurnTitle == "Análise de Carteira: Risco de Churn"

NoWalletRun == [pc |-> "idle", seen |-> <<>>, todo |-> <<>>, newActivitiesCount |-> 0,
                made |-> 0, returned |-> FALSE, ret |-> 0]
WalletAtRest ==
    /\ contacts = <<>>
    /\ walletRun = NoWalletRun

\* String.prototype.includes on the contact names used (a task's description
\* embeds the name of the contact it is about).
Includes(description, name) ==
    \/ description = name
    \/ description = "Ana Maria" /\ name = "Ana"

\* The filter of riskyContacts (NoTime: the field is absent or empty).
IsRisky(c, thirtyDaysAgo) ==
    IF c.status # "ACTIVE" \/ c.stage # "CUSTOMER" THEN FALSE
    ELSE IF c.lastPurchaseDate = NoTime /\ c.lastInteraction = NoTime
         THEN c.createdAt < thirtyDaysAgo
    ELSE LET lastActivityTs ==
                 IF c.lastInteraction # NoTime /\ c.lastPurchaseDate # NoTime
                 THEN (IF c.lastInteraction > c.lastPurchaseDate
                       THEN c.lastInteraction ELSE c.lastPurchaseDate)
                 ELSE IF c.lastInteraction # NoTime THEN c.lastInteraction ELSE c.lastPurchaseDate
         IN lastActivityTs < thirtyDaysAgo

\* activities.find(a => a.title === '...Risco de Churn' && a.description?.includes(contact.name) && !a.completed)
ExistingTask(acts, name) ==
    \E i \in 1..Len(acts) :
        /\ acts[i].title = ChurnTitle
        /\ Includes(acts[i].description, name)
        /\ ~acts[i].completed

ChurnTask(name) ==
    [dealId |-> "", title |-> ChurnTitle, description |-> name, completed |-> FALSE]

\* checkWalletHealth up to its first await: the filter over contacts; with no
\* risky contact it returns 0. Where checkWalletHealth runs, the clock and the
\* contacts' dates count whole days (30 days of milliseconds are beyond 32-bit
\* integers).
CheckWalletHealth ==
    LET thirtyDaysAgo == now - WalletDays
        riskyContacts == SelectSeq(contacts, LAMBDA c : IsRisky(c, thirtyDaysAgo))
    IN
    /\ walletRun.pc = "idle"
    /\ walletRun' = IF riskyContacts = <<>> THEN [NoWalletRun EXCEPT !.returned = TRUE]
                    ELSE [NoWalletRun EXCEPT !.pc = "loop", !.seen = activities,
                                             !.todo = riskyContacts]
    /\ UNCHANGED <<now, cacheVars, queueVars, analyzerVars, stagnantVars, rtVars, contacts>>

\* One iteration of the loop: without an uncompleted churn task naming the contact
\* among the activities the callback closed over, `await addActivity(...)` (which
\* resolves with the created activity or with null) and count it; after the last
\* iteration the call returns newActivitiesCount.
WalletIteration(ok) ==
    LET contact == Head(walletRun.todo)
        adds == ~ExistingTask(walletRun.seen, contact.name)
        last == Tail(walletRun.todo) = <<>>
        counted == IF adds THEN walletRun.newActivitiesCount + 1 ELSE walletRun.newActivitiesCount
    IN
    /\ walletRun.pc = "loop"
    /\ (adds /\ ok) => Len(activities) < MaxActivities
    /\ activities' = IF adds /\ ok THEN Append(activities, ChurnTask(contact.name)) ELSE activities
    /\ walletRun' = [walletRun EXCEPT !.pc = IF last THEN "idle" ELSE "loop",
                                      !.todo = Tail(walletRun.todo),
                                      !.newActivitiesCount = counted,
                                      !.made = IF adds /\ ok THEN @ + 1 ELSE @,
                                      !.returned = last,
                                      !.ret = IF last THEN counted ELSE 0]
    /\ UNCHANGED <<now, cacheVars, queueVars, analyzerVars, rtVars, rawDeals, stagnantRun, contacts>>

\* ------------------------------------------------------------- CRMContext.checkStagnantDeals
\* tenDaysAgo.setDate(tenDaysAgo.getDate() - 10)
StagnantDays == 10
\* stagnantDeals.slice(0, 3)
StagnantBatch == 3
StagnationTitle == "Alerta de Estagnação"

NoRun == [pc |-> "idle", seen |-> <<>>, stagnantDeals |-> <<>>, todo |-> <<>>, count |-> 0, ret |-> 0]
StagnantAtRest ==
    /\ rawDeals = <<>>
    /\ activities = <<>>
    /\ stagnantRun = NoRun

\* Variant: a deal whose stage changed exactly ten days ago counts as stagnant.
IsStagnantInclusive(d, tenDaysAgo) ==
    /\ ~d.isWon
    /\ ~d.isLost
    /\ (d.lastStageChangeDate = NoTime \/ d.lastStageChangeDate <= tenDaysAgo)

\* The filter of stagnantDeals.
IsStagnant(d, tenDaysAgo) ==
    /\ ~d.isWon
    /\ ~d.isLost
    /\ (d.lastStageChangeDate = NoTime \/ d.lastStageChangeDate < tenDaysAgo)

RECURSIVE FilterStagnant(_, _)
FilterStagnant(deals, tenDaysAgo) ==
    IF deals = <<>> THEN <<>>
    ELSE (IF IsStagnant(Head(deals), tenDaysAgo) THEN <<Head(deals)>> ELSE <<>>)
         \o FilterStagnant(Tail(deals), tenDaysAgo)

\* activities.find(a => a.dealId === deal.id && a.title === 'Alerta de Estagnação' && !a.completed)
ExistingAlert(acts, dealId) ==
    \E i \in 1..Len(acts) :
        acts[i].dealId = dealId /\ acts[i].title = StagnationTitle /\ ~acts[i].completed

Activity(dealId, title) == [dealId |-> dealId, title |-> title, completed |-> FALSE]

\* checkStagnantDeals up to its first await: the filter over rawDeals; with no
\* stagnant deal it returns 0.
CheckStagnantDeals ==
    LET tenDaysAgo == now - StagnantDays * Day
        stagnantDeals == FilterStagnant(rawDeals, tenDaysAgo)
        batch == SubSeq(stagnantDeals, 1, IF Len(stagnantDeals) < StagnantBatch
                                          THEN Len(stagnantDeals) ELSE StagnantBatch)
    IN
    /\ stagnantRun.pc = "idle"
    /\ stagnantRun' = IF stagnantDeals = <<>> THEN NoRun
                      ELSE [pc |-> "loop", seen |-> activities, stagnantDeals |-> stagnantDeals,
                            todo |-> batch, count |-> 0, ret |-> 0]
    /\ UNCHANGED <<now, cacheVars, queueVars, analyzerVars, walletVars, rtVars, rawDeals, activities>>

\* One iteration of the loop: without an uncompleted alert for the deal among the
\* activities the callback closed over, `await addActivity(...)` (which creates the
\* activity or fails); after the last iteration the call returns stagnantDeals.length.
StagnantIteration(ok) ==
    LET d == Head(stagnantRun.todo)
        adds == ~ExistingAlert(stagnantRun.seen, d.id)
        last == Tail(stagnantRun.todo) = <<>>
    IN
    /\ stagnantRun.pc = "loop"
    /\ (adds /\ ok) => Len(activities) < MaxActivities
    /\ activities' = IF adds /\ ok THEN Append(activities, Activity(d.id, StagnationTitle))
                     ELSE activities
    /\ stagnantRun' = [stagnantRun EXCEPT !.pc = IF last THEN "idle" ELSE "loop",
                                          !.todo = Tail(stagnantRun.todo),
                                          !.count = IF adds THEN @ + 1 ELSE @,
                                          !.ret = IF last THEN Len(stagnantRun.stagnantDeals) ELSE 0]
    /\ UNCHANGED <<now, cacheVars, queueVars, analyzerVars, walletVars, rtVars, rawDeals>>

\* The user completes an activity.
CompleteActivity(i) ==
    /\ i \in 1..Len(activities)
    /\ ~activities[i].completed
    /\ activities' = [activities EXCEPT ![i].completed = TRUE]
    /\ UNCHANGED <<now, cacheVars, queueVars, analyzerVars, walletVars, rtVars, rawDeals, stagnantRun>>

\* ------------------------------------------------------------- specification
InitServer == <<Rec(SrvId(1), 1, 0)>>

\* The followed list is either fetched already or still undefined with the mounted
\* query's first fetch in flight.
Init ==
    /\ now = 0
    /\ coll \in Colls
    /\ server = InitServer
    /\ nextId = 2
    /\ \E loaded \in BOOLEAN :
          /\ cache = IF loaded THEN Data(QueryFn(coll, InitServer)) ELSE NoData
          /\ fetch = IF loaded THEN Idle ELSE Fetching
    /\ invalidated = FALSE
    /\ mut = [m \in Muts |-> IdleMut]
    /\ deal = [d \in Deals |-> IdleDeal]
    /\ companies = <<>>
    /\ rtLeft = MaxRealtime
    /\ RealtimeAtRest
    /\ decisions = <<>>
    /\ processed = <<>>
    /\ recorded = {}
    /\ analyzerResults = <<>>
    /\ lastAnalyzedAt = NoTime
    /\ StagnantAtRest
    /\ WalletAtRest
    /\ call = NoCall

Next ==
    \/ \E m \in Muts, h \in Hooks : \E target \in Targets(h), date \in DatesOf(h) : Mutate(m, h, target, date)
    \/ \E m \in Muts : RemoteWriteOk(m)
    \/ \E m \in Muts : RemoteWriteFail(m)
    \/ \E m \in Muts : OnSuccess(m)
    \/ \E m \in Muts : OnError(m)
    \/ \E m \in Muts : OnSettled(m)
    \/ \E d \in Deals, hasBoard \in BOOLEAN, companyName \in CompanyNames \cup {NoName},
          companyKnown \in BOOLEAN, newContact \in BOOLEAN :
            AddDealStart(d, hasBoard, companyName, companyKnown, newContact)
    \/ \E d \in Deals, ok \in BOOLEAN : AddCompanyReturns(d, ok)
    \/ \E d \in Deals : AddContactReturns(d)
    \/ \E d \in Deals : AddDealRejects(d)
    \/ \E d \in Deals : DealWriteOk(d)
    \/ \E d \in Deals : DealWriteNull(d)
    \/ \E d \in Deals : Reconcile(d)
    \/ \E d \in Deals : AddActivityReturns(d)
    \/ RealtimeInvalidate
    \/ FetchRead
    \/ FetchComplete
    \/ Tick

Spec == Init /\ [][Next]_vars

\* The cache side at rest, for the specifications of the decision queue.
CacheAtRest ==
    /\ coll = "boards"
    /\ server = InitServer
    /\ nextId = 2
    /\ cache = Data(InitServer)
    /\ fetch = Idle
    /\ invalidated = FALSE
    /\ mut = [m \in Muts |-> IdleMut]
    /\ deal = [d \in Deals |-> IdleDeal]
    /\ companies = <<>>
    /\ rtLeft = 0

\* The decision queue under its write operations, from an empty localStorage.
InitQueue ==
    /\ now = 0
    /\ CacheAtRest
    /\ RealtimeAtRest
    /\ decisions = <<>>
    /\ processed = <<>>
    /\ recorded = {}
    /\ analyzerResults = <<>>
    /\ lastAnalyzedAt = NoTime
    /\ StagnantAtRest
    /\ WalletAtRest
    /\ call = NoCall

NextQueue ==
    \/ \E rel \in Relations : AddDecision(rel)
    \/ \E rels \in Batches : AddDecisions(rels)
    \/ \E id \in KnownIds : ApproveDecision(id, NoOverride)
    \/ \E id \in KnownIds : RejectDecision(id)
    \/ \E id \in KnownIds : SnoozeDecision(id, now + 1)

SpecQueue == InitQueue /\ [][NextQueue]_vars

\* Stored queues for the read side: the i-th decision is about the i-th deal (no
\* two pending decisions are similar). Pending ones of every priority and age
\* without times, pending ones with an expiry, a snooze time or both, plus a
\* snoozed and an approved one.
Times == {NoTime, 1}
PendingShapes ==
    {MkDecision(0, Rel("t1", None, None, None), p, "pending", c, NoTime, NoTime) :
        p \in Priorities, c \in {0, 1}}
    \cup {MkDecision(0, Rel("t1", None, None, None), "high", "pending", c, e, z) :
        c \in {0, 1}, e \in Times, z \in Times}
    \cup {MkDecision(0, Rel("t1", None, None, None), "critical", "snoozed", 0, NoTime, 1),
          [MkDecision(0, Rel("t1", None, None, None), "critical", "approved", 0, NoTime, NoTime)
              EXCEPT !.decidedAt = 0]}
StoredQueues ==
    UNION {{[i \in 1..n |-> [shapes[i] EXCEPT !.id = i, !.dealId = ToString(i)]] :
                shapes \in [1..n -> PendingShapes]} : n \in 0..MaxPendLen}

InitPending ==
    /\ now = 0
    /\ CacheAtRest
    /\ RealtimeAtRest
    /\ decisions \in StoredQueues
    /\ processed = <<>>
    /\ recorded = {}
    /\ analyzerResults = <<>>
    /\ lastAnalyzedAt = NoTime
    /\ StagnantAtRest
    /\ WalletAtRest
    /\ call = NoCall

TickQueue ==
    /\ now < MaxNow
    /\ now' = now + 1
    /\ UNCHANGED <<cacheVars, queueVars, rtVars, analyzerVars, stagnantVars, walletVars>>

NextPending ==
    \/ GetPending
    \/ TickQueue
    \/ \E id \in KnownIds : SnoozeDecision(id, now + 1)

SpecPending == InitPending /\ [][NextPending]_vars

\* The maintenance sweeps, applied on the eighth or ninth day to stored queues of
\* pending decisions with and without an expiry, of decisions rejected or
\* approved on earlier days, and of snoozed ones.
SweepTimes == {8 * Day, 9 * Day}
Decided(d, status, at) == [d EXCEPT !.status = status, !.decidedAt = at]
SweepShapes ==
    LET fresh(e) == MkDecision(0, Rel("t1", None, None, None), "medium", "pending", 0, e, NoTime) IN
    {fresh(e) : e \in {NoTime, Day, 8 * Day, 10 * Day}}
    \cup {Decided(fresh(NoTime), "rejected", at) : at \in {0, Day, 2 * Day, 8 * Day}}
    \cup {Decided(fresh(Day), "approved", Day),
          [fresh(Day) EXCEPT !.status = "snoozed", !.snoozeUntil = 2 * Day],
          [Decided(fresh(NoTime), "snoozed", 0) EXCEPT !.snoozeUntil = Day]}
SweepQueues ==
    UNION {{[i \in 1..n |-> [shapes[i] EXCEPT !.id = i, !.dealId = ToString(i)]] :
                shapes \in [1..n -> SweepShapes]} : n \in 0..MaxPendLen}

InitSweep ==
    /\ now \in SweepTimes
    /\ CacheAtRest
    /\ RealtimeAtRest
    /\ decisions \in SweepQueues
    /\ processed = <<>>
    /\ recorded = {}
    /\ analyzerResults = <<>>
    /\ lastAnalyzedAt = NoTime
    /\ StagnantAtRest
    /\ WalletAtRest
    /\ call = NoCall

NextSweep ==
    \/ ClearExpired
    \/ \E olderThanDays \in {DefaultOlderThanDays, 0, 1} : ClearCompleted(olderThanDays)

SpecSweep == InitSweep /\ [][NextSweep]_vars

\* approveDecision on stored queues of one decision with any suggested action.
InitApprove ==
    /\ now = 0
    /\ CacheAtRest
    /\ RealtimeAtRest
    /\ \E action \in {Action(t, p) : t \in ActionTypes, p \in Payloads}, status \in {"pending", "snoozed"} :
          decisions = <<[MkDecision(1, Rel("t1", "d1", None, None), "medium", status, 0, NoTime, NoTime)
                            EXCEPT !.suggestedAction = action]>>
    /\ processed = <<>>
    /\ recorded = {}
    /\ analyzerResults = <<>>
    /\ lastAnalyzedAt = NoTime
    /\ StagnantAtRest
    /\ WalletAtRest
    /\ call = NoCall

NextApprove ==
    \E id \in KnownIds, modifiedPayload \in Overrides : ApproveDecision(id, modifiedPayload)

SpecApprove == InitApprove /\ [][NextApprove]_vars

\* The decision queue over a long history of decided decisions: the analyzers
\* report deal 1, then deal 2, ... (each deal after the one decided last), and
\* may report again any deal decided before.
NumberedRel(n) == Rel("t1", ToString(n), None, None)
NextDealNo == Cardinality(recorded) + 1
ReportedDeals == {n \in {1, NextDealNo - 1, NextDealNo} : n >= 1 /\ n <= MaxDealNo}

NextProcessed ==
    \/ \E n \in ReportedDeals : AddDecision(NumberedRel(n))
    \/ \E id \in KnownIds : ApproveDecision(id, NoOverride)
    \/ \E id \in KnownIds : RejectDecision(id)
    \/ ClearAll

SpecProcessed == InitQueue /\ [][NextProcessed]_vars

\* The decision queue with analyzer runs and clearAll: decisions about one deal
\* and about one contact are reported, decided and cleared.
ClearRelations == {Rel("t1", "d1", "c1", None), Rel("t1", None, "c1", None)}
NextClearAll ==
    \/ \E rel \in ClearRelations : AddDecision(rel)
    \/ \E rels \in {<<r1, r2>> : r1 \in ClearRelations, r2 \in ClearRelations} : AddDecisions(rels)
    \/ \E id \in KnownIds : ApproveDecision(id, NoOverride)
    \/ \E id \in KnownIds : RejectDecision(id)
    \/ \E result \in AnalyzerResults : SaveAnalyzerResult(result)
    \/ ClearAll

SpecClearAll == InitQueue /\ [][NextClearAll]_vars

\* addDeal calls that carry a company name, in any interleaving: the companies
\* list starts empty or with one company, each call names it in either spelling.
Calls == 1..MaxCalls
CallNames == {"Acme", "ACME"}
InitCompanies ==
    /\ now = 0
    /\ coll = "deals"
    /\ server = InitServer
    /\ nextId = 2
    /\ cache = Data(QueryFn("deals", InitServer))
    /\ fetch = Idle
    /\ invalidated = FALSE
    /\ mut = [m \in Muts |-> IdleMut]
    /\ deal = [d \in Calls |-> IdleDeal]
    /\ companies \in {<<>>, <<"Acme">>}
    /\ rtLeft = MaxRealtime
    /\ RealtimeAtRest
    /\ decisions = <<>>
    /\ processed = <<>>
    /\ recorded = {}
    /\ analyzerResults = <<>>
    /\ lastAnalyzedAt = NoTime
    /\ StagnantAtRest
    /\ WalletAtRest
    /\ call = NoCall

NextCompanies ==
    \/ \E d \in Calls, hasBoard \in BOOLEAN, companyName \in CallNames :
            AddDealStart(d, hasBoard, companyName, FALSE, FALSE)
    \/ \E d \in Calls, ok \in BOOLEAN : AddCompanyReturns(d, ok)
    \/ \E d \in Calls : DealWriteOk(d)
    \/ \E d \in Calls : DealWriteNull(d)
    \/ \E d \in Calls : Reconcile(d)
    \/ \E d \in Calls : AddActivityReturns(d)
    \/ Tick

SpecCompanies == InitCompanies /\ [][NextCompanies]_vars

\* checkStagnantDeals, run again and again at one time over a list of deals that
\* are open, won or lost, with a stage change more than ten days ago, exactly ten
\* days ago, or none; each run sees the activities as they are when it starts.
RunAt == 20 * Day
DealShapes ==
    {[id |-> 0, isWon |-> FALSE, isLost |-> FALSE, lastStageChangeDate |-> t] :
        t \in {NoTime, RunAt - StagnantDays * Day - 1, RunAt - StagnantDays * Day}}
    \cup {[id |-> 0, isWon |-> TRUE, isLost |-> FALSE, lastStageChangeDate |-> RunAt - StagnantDays * Day - 1],
          [id |-> 0, isWon |-> FALSE, isLost |-> TRUE, lastStageChangeDate |-> NoTime]}
DealLists ==
    UNION {{[i \in 1..n |-> [shapes[i] EXCEPT !.id = i]] : shapes \in [1..n -> DealShapes]} :
              n \in 1..MaxRawDeals}
InitStagnant ==
    /\ now = RunAt
    /\ CacheAtRest
    /\ RealtimeAtRest
    /\ decisions = <<>>
    /\ processed = <<>>
    /\ recorded = {}
    /\ analyzerResults = <<>>
    /\ lastAnalyzedAt = NoTime
    /\ call = NoCall
    /\ rawDeals \in DealLists
    /\ activities \in {<<>>, <<Activity(1, "Ligar")>>}
    /\ stagnantRun = NoRun
    /\ WalletAtRest

NextStagnant ==
    \/ CheckStagnantDeals
    \/ \E ok \in BOOLEAN : StagnantIteration(ok)
    \/ \E i \in 1..MaxActivities : CompleteActivity(i)

SpecStagnant == InitStagnant /\ [][NextStagnant]_vars

\* checkStagnantDeals run again and again with nothing in its way: no activity to
\* begin with, every addActivity succeeds, no alert is completed, every run that
\* can start does start and every started run goes on.
InitStagnantLive ==
    /\ InitStagnant
    /\ activities = <<>>
NextStagnantLive ==
    \/ CheckStagnantDeals
    \/ StagnantIteration(TRUE)
FairnessStagnant == WF_vars(CheckStagnantDeals) /\ WF_vars(StagnantIteration(TRUE))
SpecStagnantLive == InitStagnantLive /\ [][NextStagnantLive]_vars /\ FairnessStagnant

\* checkWalletHealth over one or two contacts with different names, run at WalletAt.
MaxContacts == 2
WalletAt == WalletDays + 10
WalletTimes == {WalletAt - WalletDays - 1, WalletAt - WalletDays}
ContactShapes ==
    {[name |-> "", status |-> "ACTIVE", stage |-> "CUSTOMER", createdAt |-> c,
      lastInteraction |-> i, lastPurchaseDate |-> p] :
        c \in WalletTimes, i \in WalletTimes \cup {NoTime}, p \in WalletTimes \cup {NoTime}}
    \cup {[name |-> "", status |-> st[1], stage |-> st[2], createdAt |-> WalletAt - WalletDays - 1,
           lastInteraction |-> NoTime, lastPurchaseDate |-> NoTime] :
              st \in {<<"INACTIVE", "CUSTOMER">>, <<"ACTIVE", "LEAD">>, <<"CHURNED", "CUSTOMER">>}}
ContactNames == {<<"Ana", "Ana Maria">>, <<"Ana Maria", "Ana">>}
ContactLists ==
    UNION {{[i \in 1..n |-> [shapes[i] EXCEPT !.name = names[i]]] :
               shapes \in [1..n -> ContactShapes], names \in ContactNames} :
              n \in 1..MaxContacts}
InitWallet ==
    /\ now = WalletAt
    /\ CacheAtRest
    /\ RealtimeAtRest
    /\ decisions = <<>>
    /\ processed = <<>>
    /\ recorded = {}
    /\ analyzerResults = <<>>
    /\ lastAnalyzedAt = NoTime
    /\ call = NoCall
    /\ rawDeals = <<>>
    /\ stagnantRun = NoRun
    /\ activities \in {<<>>, <<ChurnTask("Ana")>>, <<ChurnTask("Ana Maria")>>}
    /\ contacts \in ContactLists
    /\ walletRun = NoWalletRun

NextWallet ==
    \/ CheckWalletHealth
    \/ \E ok \in BOOLEAN : WalletIteration(ok)
    \/ \E i \in 1..MaxActivities : CompleteActivity(i)

SpecWallet == InitWallet /\ [][NextWallet]_vars

\* A mounted, enabled useRealtimeSync subscription receiving change events.
InitRealtime ==
    /\ now = 0
    /\ CacheAtRest
    /\ RealtimeAtRest
    /\ decisions = <<>>
    /\ processed = <<>>
    /\ recorded = {}
    /\ analyzerResults = <<>>
    /\ lastAnalyzedAt = NoTime
    /\ StagnantAtRest
    /\ WalletAtRest
    /\ call = NoCall

NextRealtime ==
    \/ \E table \in RtTables, eventType \in EventTypes : Receive(table, eventType)
    \/ Flush
    \/ DebounceFire
    \/ TimerTick

SpecRealtime == InitRealtime /\ [][NextRealtime]_vars

\* The hook from its mount on, enabled or not: deps changes, unmount, channel
\* statuses and change events of the tables useRealtimeSyncKanban subscribes to.
InitHook ==
    /\ now = 0
    /\ CacheAtRest
    /\ HookMounting
    /\ PendingAtRest
    /\ decisions = <<>>
    /\ processed = <<>>
    /\ recorded = {}
    /\ analyzerResults = <<>>
    /\ lastAnalyzedAt = NoTime
    /\ StagnantAtRest
    /\ WalletAtRest
    /\ call = NoCall
NextHook ==
    \/ \E e \in BOOLEAN : DepsChange(e)
    \/ Unmount
    \/ EffectCleanup
    \/ EffectSetup
    \/ \E channel \in 1..MaxChannels, status \in ChannelStatuses : SubscribeStatus(channel, status)
    \/ \E table \in RtTables, eventType \in EventTypes : ChannelEvent(table, eventType)
    \/ Flush
    \/ DebounceFire
    \/ TimerTick

SpecHook == InitHook /\ [][NextHook]_vars

\* Queued microtasks run, time passes and due timers fire; events are not forced.
FairnessRealtime == WF_vars(Flush) /\ WF_vars(DebounceFire) /\ WF_vars(TimerTick)

SpecRealtimeLive == InitRealtime /\ [][NextRealtime]_vars /\ FairnessRealtime

\* The event loop runs every handler whose response has arrived, every remote call
\* is answered, every started fetch is read and delivered, and time passes; only
\* the start of a mutation, of an addDeal call and a realtime event are not forced.
Fairness ==
    /\ WF_vars(Tick)
    /\ WF_vars(FetchRead)
    /\ WF_vars(FetchComplete)
    /\ \A m \in Muts : /\ WF_vars(RemoteWriteOk(m) \/ RemoteWriteFail(m))
                       /\ WF_vars(OnSuccess(m))
                       /\ WF_vars(OnError(m))
                       /\ WF_vars(OnSettled(m))

SpecLive == Init /\ [][Next]_vars /\ Fairness

\* ------------------------------------------------------------- claims
\* The step in which mutation m's onError runs.
ErrorStep(m) == mut[m].pc = "responded" /\ ~mut[m].ok /\ mut'[m].pc = "handled"
\* The step in which mutation m's onSuccess runs.
SuccessStep(m) == mut[m].pc = "responded" /\ mut[m].ok /\ mut'[m].pc = "handled"
\* The step in which addDeal call d reconciles with a created deal.
ReconcileStep(d) == deal[d].pc = "dealReturned" /\ deal'[d].pc = "awaitActivity"

\* C1: when a create mutation's remote write fails, then after onError the cached
\* list is exactly what was cached right before the optimistic insert, also when
\* nothing was cached (the list was undefined).
C1_FailedCreateRestoresPrior ==
    [][\A m \in Muts : (ErrorStep(m) /\ mut[m].hook \in CreateHooks) => cache' = mut[m].snapshot]_vars

\* C2: after the success handler of a create (useCreateBoard, useCreateActivity,
\* addDeal into a board's list) the cached list holds exactly one record with the
\* server-assigned id and none with the temporary id.
C2_CreateSuccessExactlyOne ==
    [][/\ \A m \in Muts : (SuccessStep(m) /\ mut[m].hook \in CreateHooks) =>
              /\ cache'.has
              /\ CountId(cache'.list, mut[m].data.id) = 1
              /\ ~Some(cache'.list, mut[m].tempId)
       /\ \A d \in Deals : (ReconcileStep(d) /\ deal[d].hasBoard) =>
              /\ cache'.has
              /\ CountId(cache'.list, deal[d].created.id) = 1
              /\ ~Some(cache'.list, deal[d].tempId)]_vars

\* C2 witness: useCreateActivity's onSuccess has run when a refetch had already put
\* the server's record into the list.
C2_Witness ==
    \E m \in Muts : /\ mut[m].pc = "handled" /\ mut[m].hook = "useCreateActivity"
                    /\ mut[m].ok /\ mut[m].already
                    /\ CountId(cache.list, mut[m].data.id) = 1

\* C3: a mutation finishes only through onSettled, which runs after onSuccess or
\* onError and leaves the collection's query invalidated (and refetching), whether
\* the remote write succeeded or failed.
C3_SettledInvalidates ==
    [][\A m \in Muts : (mut[m].pc # "done" /\ mut'[m].pc = "done") =>
          /\ mut[m].pc = "handled"
          /\ invalidated'
          /\ fetch' = Fetching]_vars

\* C3 witness: two mutations have settled, one after a successful and one after a
\* failed remote write.
C3_Witness ==
    \E a, b \in Muts : /\ mut[a].pc = "done" /\ mut[a].ok
                       /\ mut[b].pc = "done" /\ ~mut[b].ok
                       /\ invalidated

\* No mutation is in flight and at least one has settled.
AllSettled == /\ \A m \in Muts : mut[m].pc \in {"idle", "done"}
              /\ \E m \in Muts : mut[m].pc = "done"
\* The cached list is the remote store's collection as the queryFn returns it.
Synced == cache.has /\ cache.list = QueryFn(coll, server)
NoTempCached == \A i \in 1..Len(cache.list) : ~IsTemp(cache.list[i].id)

\* C4: once mutations stop being started, then after the in-flight ones have settled
\* the cached list eventually equals, and stays equal to, the remote store's
\* collection, with no temporary record.
C4_EventuallySynced == <>[](AllSettled => (Synced /\ NoTempCached))

\* C4 witness: a create whose rollback was skipped (nothing was cached) has settled
\* and the refetch has brought the list in line with the store.
C4_Witness ==
    /\ \E m \in Muts : mut[m].pc = "done" /\ mut[m].hook \in CreateHooks /\ ~mut[m].ok
    /\ \E m \in Muts : mut[m].pc = "done" /\ mut[m].hook \in CreateHooks /\ mut[m].ok
    /\ AllSettled /\ Synced /\ fetch = Idle /\ ~invalidated

\* C5: after addDeal has finished, in every outcome (also when a remote call
\* rejected), no record with its temporary id is in the board's deal list.
C5_TempDealRemoved ==
    \A d \in Deals : (deal[d].pc \in {"done", "rejected"} /\ deal[d].hasBoard) =>
        ~Some(OldOrEmpty(cache), deal[d].tempId)

\* The stored decisions with a given type and deal.
CountTypeDeal(q, type, dealId) ==
    Cardinality({i \in 1..Len(q) : q[i].type = type /\ q[i].dealId = dealId})

\* C6: two decisions with the same type and the same dealId, added in one batch to
\* an empty queue with nothing processed, leave exactly one decision for that
\* (type, dealId).
C6_SameTypeDealDedupes ==
    (/\ call.op = "addDecisions" /\ Len(call.args) = 2
     /\ call.before = <<>> /\ call.processedBefore = <<>>
     /\ call.args[1].type = call.args[2].type
     /\ call.args[1].dealId # None
     /\ call.args[1].dealId = call.args[2].dealId)
    => CountTypeDeal(decisions, call.args[1].type, call.args[1].dealId) = 1

\* The claim's condition for inserting: the dedupe key is not processed and no
\* pending decision has the same (type, dealId, contactId).
InsertCondition(q, p, d) ==
    /\ \A i \in 1..Len(p) : p[i] # DedupeKey(d)
    /\ \A i \in 1..Len(q) : ~(/\ q[i].status = "pending" /\ q[i].type = d.type
                              /\ q[i].dealId = d.dealId /\ q[i].contactId = d.contactId)

RECURSIVE InsertInOrder(_, _, _)
InsertInOrder(q, p, batch) ==
    IF batch = <<>> THEN q
    ELSE InsertInOrder(IF InsertCondition(q, p, Head(batch)) THEN Append(q, Head(batch)) ELSE q,
                       p, Tail(batch))

\* C7: addDecision, and addDecisions for each element in order, inserts a decision
\* exactly when its dedupe key is not processed and no pending decision has the
\* same (type, dealId, contactId); a skipped decision leaves the queue unchanged.
C7_InsertIff ==
    call.op \in {"addDecision", "addDecisions"} =>
        /\ decisions = InsertInOrder(call.before, call.processedBefore, call.args)
        /\ processed = call.processedBefore

\* C7 witness: a batch on a queue with a processed key in which one decision was
\* skipped for its processed key, and an addDecision skipped for a similar pending one.
C7_Witness ==
    /\ call.op = "addDecisions" /\ Len(call.args) = 2
    /\ HasProcessed(call.processedBefore, DedupeKey(call.args[1]))
    /\ Len(decisions) = Len(call.before) + 1
    /\ decisions[Len(decisions)] = call.args[2]

\* C8: two decisions whose dedupe keys differ do not dedupe against each other:
\* added to an empty queue with nothing processed, both are stored.
C8_DifferentKeysBothStored ==
    (/\ call.op = "addDecisions" /\ Len(call.args) = 2
     /\ call.before = <<>> /\ call.processedBefore = <<>>
     /\ DedupeKey(call.args[1]) # DedupeKey(call.args[2]))
    => decisions = call.args

\* What the claim says getPendingDecisions returns at time t.
Qualifies(d, t) ==
    /\ d.status = "pending"
    /\ d.expiresAt # NoTime => ~(d.expiresAt < t)
    /\ d.snoozeUntil # NoTime => ~(d.snoozeUntil > t)

\* C9: getPendingDecisions returns exactly the stored decisions that are pending,
\* not expired and not still snoozed, and leaves the stored queue unchanged.
C9_PendingExactly ==
    call.op = "getPendingDecisions" =>
        /\ decisions = call.before
        /\ processed = call.processedBefore
        /\ \A i \in 1..Len(call.ret) :
              \E j \in 1..Len(call.before) : call.before[j] = call.ret[i] /\ Qualifies(call.ret[i], call.at)
        /\ \A j \in 1..Len(call.before) :
              Qualifies(call.before[j], call.at) => \E i \in 1..Len(call.ret) : call.ret[i] = call.before[j]
        /\ \A i, k \in 1..Len(call.ret) : i # k => call.ret[i].id # call.ret[k].id

\* C9 witness: a call that dropped an expired pending decision and returned one
\* whose snooze time has passed.
C9_Witness ==
    /\ call.op = "getPendingDecisions"
    /\ \E j \in 1..Len(call.before) :
          /\ call.before[j].status = "pending"
          /\ call.before[j].expiresAt # NoTime /\ call.before[j].expiresAt < call.at
          /\ call.before[j].snoozeUntil = NoTime
    /\ \E i \in 1..Len(call.ret) : call.ret[i].snoozeUntil # NoTime /\ call.ret[i].snoozeUntil <= call.at

\* critical is the highest priority, low the lowest.
Rank(p) == CASE p = "critical" -> 4 [] p = "high" -> 3 [] p = "medium" -> 2 [] OTHER -> 1

\* C10: the result of getPendingDecisions is ordered by priority (critical, high,
\* medium, low) and, within a priority, newest first.
C10_PendingOrdered ==
    call.op = "getPendingDecisions" =>
        \A i \in 1..(Len(call.ret) - 1) :
            LET a == call.ret[i]
                b == call.ret[i + 1]
            IN /\ Rank(a.priority) >= Rank(b.priority)
               /\ a.priority = b.priority => a.createdAt >= b.createdAt

\* C10 witness: a result in which the stored order was changed by creation time.
C10_Witness ==
    /\ call.op = "getPendingDecisions" /\ Len(call.ret) = 2
    /\ call.ret[1].priority = call.ret[2].priority
    /\ call.ret[1].createdAt > call.ret[2].createdAt
    /\ call.ret[1].id > call.ret[2].id

\* C11: a decision snoozed with snoozeDecision(id, until) is returned again by
\* getPendingDecisions once the time is past `until`, unless it has expired or
\* has been decided.
C11_SnoozedReappears ==
    call.op = "getPendingDecisions" =>
        \A j \in 1..Len(call.before) :
            LET d == call.before[j] IN
            (/\ d.status = "snoozed" /\ d.decidedAt = NoTime
             /\ d.snoozeUntil # NoTime /\ d.snoozeUntil < call.at
             /\ ~(d.expiresAt # NoTime /\ d.expiresAt < call.at))
            => \E i \in 1..Len(call.ret) : call.ret[i].id = d.id

\* C12: once a decision has been approved or rejected, its dedupe key is recorded
\* as processed, and after any later sequence of queue operations an addDecision
\* of a decision with the same dedupe key inserts nothing.
C12_ProcessedNeverReadded ==
    (call.op = "addDecision" /\ DedupeKey(call.args[1]) \in recorded) => decisions = call.before

\* C13: approveDecision executes the decision's suggested action type with the
\* suggested payload overlaid by the override: a field present in the override has
\* the override's value, every other field keeps the suggested value; without an
\* override the suggested payload is used unchanged.
C13_PayloadOverlay ==
    (call.op = "approveDecision" /\ call.ret.success) =>
        \E j \in 1..Len(call.before) :
            LET suggested == call.before[j].suggestedAction
                given == call.args[1].modifiedPayload.given
                override == call.args[1].modifiedPayload.payload
                final == call.ret.payload
            IN /\ call.before[j].id = call.args[1].id
               /\ call.ret.actionType = suggested.type
               /\ ~given => final = suggested.payload
               /\ given =>
                    /\ DOMAIN final = (DOMAIN suggested.payload) \cup (DOMAIN override)
                    /\ \A f \in DOMAIN override : final[f] = override[f]
                    /\ \A f \in (DOMAIN suggested.payload) \ (DOMAIN override) : final[f] = suggested.payload[f]

\* C13 witness: an approval whose override changed one suggested field and left
\* another one as suggested.
C13_Witness ==
    /\ call.op = "approveDecision" /\ call.ret.success
    /\ call.args[1].modifiedPayload.given
    /\ DOMAIN call.before[1].suggestedAction.payload = Fields
    /\ DOMAIN call.args[1].modifiedPayload.payload = {"title"}
    /\ call.ret.payload["title"] # call.before[1].suggestedAction.payload["title"]
    /\ call.ret.payload["date"] = call.before[1].suggestedAction.payload["date"]
    /\ decisions[1].status = "approved"

\* A pending decision whose expiresAt is before the time of the call.
ExpiredAtCall(d) == d.status = "pending" /\ d.expiresAt # NoTime /\ d.expiresAt < call.at
NotExpiredAtCall(d) == ~ExpiredAtCall(d)

\* C14: clearExpired removes exactly the pending decisions with an expiresAt in the
\* past, leaves all others unchanged and in order, and returns the number removed.
C14_ClearExpiredExactly ==
    call.op = "clearExpired" =>
        /\ decisions = SelectSeq(call.before, NotExpiredAtCall)
        /\ call.ret = Cardinality({j \in 1..Len(call.before) : ExpiredAtCall(call.before[j])})
        /\ processed = call.processedBefore

\* C14 witness: a sweep that removed an expired pending decision and kept a
\* snoozed decision whose expiry has passed as well.
C14_Witness ==
    /\ call.op = "clearExpired" /\ call.ret = 1 /\ Len(call.before) = 2
    /\ Len(decisions) = 1 /\ decisions[1].status = "snoozed"
    /\ decisions[1].expiresAt # NoTime /\ decisions[1].expiresAt < call.at

\* A non-pending decision decided before the retention window of the call.
OldCompletedAtCall(d) ==
    /\ d.status # "pending" /\ d.decidedAt # NoTime
    /\ d.decidedAt < call.at - call.args[1] * Day
NotOldCompletedAtCall(d) == ~OldCompletedAtCall(d)

\* C15: clearCompleted(olderThanDays) removes exactly the non-pending decisions
\* whose decidedAt is older than the retention window, never a pending one or one
\* decided within the window, and returns the number removed.
C15_ClearCompletedExactly ==
    call.op = "clearCompleted" =>
        /\ decisions = SelectSeq(call.before, NotOldCompletedAtCall)
        /\ call.ret = Cardinality({j \in 1..Len(call.before) : OldCompletedAtCall(call.before[j])})
        /\ processed = call.processedBefore

\* C15 witness: a sweep with the default window that removed a decision rejected
\* more than seven days before and kept one rejected within the window.
C15_Witness ==
    /\ call.op = "clearCompleted" /\ call.args[1] = DefaultOlderThanDays
    /\ call.ret = 1 /\ Len(call.before) = 2
    /\ Len(decisions) = 1 /\ decisions[1].status = "rejected"
    /\ decisions[1].decidedAt >= call.at - DefaultOlderThanDays * Day

\* The step in which the queued microtask flush runs.
FlushStep == microtasks > 0 /\ microtasks' < microtasks
\* The step in which the debounce timer's callback runs.
DebounceStep == debounceTimer = 0 /\ debounceTimer' = NoTimer
\* The refetch types with which a pass invalidated a key.
RefetchTypes(pass, k) == {c.refetchType : c \in {x \in pass.calls : x.queryKey = k}}

\* C16: in a flush, the keys queued by board_stages INSERT events are invalidated
\* with a refetch when exactly one such INSERT was received since the previous
\* flush and without any refetch when two or more were; the flush resets the count.
C16_BurstNotRefetched ==
    [][FlushStep =>
          /\ pendingBoardStagesInsertCount' = 0
          /\ \A k \in pendingInvalidateOnly :
                /\ RefetchTypes(lastPass', k) # {}
                /\ pendingBoardStagesInsertCount = 1 => "all" \in RefetchTypes(lastPass', k)
                /\ pendingBoardStagesInsertCount >= 2 => RefetchTypes(lastPass', k) = {"none"}]_vars

\* C17: however many INSERT events arrive within one tick, exactly one microtask
\* flush is queued for it; the flush invalidates every key still queued and
\* leaves both pending sets empty.
C17_OneFlushPerTick ==
    [][/\ microtasks' <= 1
       /\ (\E table \in RtTables : Receive(table, "INSERT")) => microtasks' = 1
       /\ FlushStep =>
             /\ (pendingInvalidations \cup pendingInvalidateOnly) \subseteq KeysOf(lastPass'.calls)
             /\ pendingInvalidations' = {} /\ pendingInvalidateOnly' = {}
             /\ microtasks' = 0 /\ ~flushScheduled']_vars

\* C17 witness: one flush has handled a tick with a deals INSERT and a burst of
\* board_stages INSERTs.
C17_Witness ==
    /\ lastPass.kind = "flush" /\ lastPass.boardStagesInsertCount >= 2
    /\ KeysOf(lastPass.calls) = QueryKeys
    /\ pendingInvalidations = {} /\ pendingInvalidateOnly = {} /\ microtasks = 0

\* C18: every UPDATE/DELETE event re-arms the single debounce timer; the timer's
\* callback runs debounceMs after the last event of a run, is the only pass the
\* run causes, and invalidates every key the run queued that is still pending.
C18_DebouncedOnePass ==
    [][/\ (\E table \in RtTables, eventType \in {"UPDATE", "DELETE"} : Receive(table, eventType))
             => debounceTimer' = DebounceMs
       /\ (lastPass'.kind = "debounce" /\ lastPass' # lastPass) => DebounceStep
       /\ DebounceStep =>
             /\ sinceEvent = DebounceMs
             /\ lastPass'.kind = "debounce"
             /\ runKeys \subseteq KeysOf(lastPass'.calls)
             /\ runKeys' = {} /\ pendingInvalidations' = {}]_vars

\* C18 witness: the timer's callback has run after a run of UPDATE/DELETE events
\* on both tables and invalidated all their keys.
C18_Witness ==
    /\ lastPass.kind = "debounce" /\ KeysOf(lastPass.calls) = QueryKeys
    /\ sinceEvent = DebounceMs /\ debounceTimer = NoTimer /\ owed = {}

\* C20: every change event received eventually leads to the invalidation of all
\* query keys mapped to its table.
C20_EventuallyInvalidated == \A k \in QueryKeys : (k \in owed) ~> (k \notin owed)

\* The step in which mutation m's remote write is issued.
IssueStep(m) == mut[m].pc = "idle" /\ mut'[m].pc = "pending"
\* The step in which addDeal call d issues its first remote call.
DealIssueStep(d) == deal[d].pc = "idle" /\ deal'[d].pc # "idle"

\* The optimistic edit of hook h shows in the cached list c, given the list before.
EditVisible(h, c, before, tempId, target) ==
    /\ c.has
    /\ h \in CreateHooks => Some(c.list, tempId)
    /\ h \in {"useDeleteBoard", "useDeleteActivity"} => ~Some(c.list, target)
    /\ h \in {"useUpdateBoard", "useUpdateActivity"} =>
          \A i \in 1..Len(c.list) : c.list[i].id = target => c.list[i].val = 1
    /\ h = "useToggleActivity" =>
          \A i \in 1..Len(c.list), j \in 1..Len(before) :
              (c.list[i].id = target /\ before[j].id = target) => c.list[i].val # before[j].val

\* When a hook with onMutate issues its remote write, the snapshot it holds is the
\* list cached before and the optimistic edit is in the cache.
HookOrder ==
    \A m \in Muts : (IssueStep(m) /\ HasOnMutate(mut'[m].hook)) =>
        /\ mut'[m].snapshot = cache
        /\ EditVisible(mut'[m].hook, cache', OldOrEmpty(cache), mut'[m].tempId, mut'[m].target)

\* When addDeal for a board issues its first remote call, its temporary deal is
\* in the cached list.
DealEditFirst ==
    \A d \in Deals : (DealIssueStep(d) /\ deal'[d].hasBoard) =>
        /\ cache'.has
        /\ Some(cache'.list, deal'[d].tempId)

C21_BurstFlushNoBoardsRefetch ==
    [][(FlushStep /\ pendingBoardStagesInsertCount >= 2) =>
          \A c \in lastPass'.calls : c.queryKey = "boards.all" => c.refetchType = "none"]_vars

\* The hooks whose onMutate edits, removes or toggles a record of the list.
EditHooks == {"useUpdateBoard", "useDeleteBoard", "useUpdateActivity", "useToggleActivity",
              "useDeleteActivity"}

HasTemp(l) == \E i \in 1..Len(l) : IsTemp(l[i].id)
\* Of two mutations, the one that was started first (slots are taken in order).
StartedFirst(m, k) == IF m < k THEN m ELSE k

\* C23: when two create mutations on the same collection overlap and both remote
\* writes fail, then after the second onError, in either order, the cached list
\* has no temporary record and is the list cached before the first optimistic
\* insert. Stated for the case that a list was cached before the first insert and
\* no realtime refetch came in between.
C23_OverlappingFailedCreates ==
    [][\A m, k \in Muts :
          (/\ m # k
           /\ ErrorStep(m) /\ mut[m].hook \in CreateHooks
           /\ mut[k].pc = "handled" /\ ~mut[k].ok /\ mut[k].hook \in CreateHooks
           /\ mut[StartedFirst(m, k)].snapshot.has
           /\ rtLeft = MaxRealtime) =>
              /\ ~HasTemp(cache'.list)
              /\ cache' = mut[StartedFirst(m, k)].snapshot]_vars

Undecided(d) == d.status \in {"pending", "snoozed"}

\* C24: the queue never holds two undecided decisions (pending or snoozed) with
\* the same type, dealId and contactId.
C24_OneUndecidedPerSituation ==
    \A i, j \in 1..Len(decisions) :
        (/\ i < j
         /\ Undecided(decisions[i]) /\ Undecided(decisions[j])
         /\ decisions[i].type = decisions[j].type
         /\ decisions[i].dealId = decisions[j].dealId) =>
            decisions[i].contactId # decisions[j].contactId

\* C25: once a decision is approved or rejected, no later step changes its
\* status, decidedAt or snoozeUntil (it may only be removed).
C25_DecidedIsFinal ==
    [][\A i \in 1..Len(decisions) : decisions[i].status \in {"approved", "rejected"} =>
          \A j \in 1..Len(decisions') : decisions'[j].id = decisions[i].id =>
              /\ decisions'[j].status = decisions[i].status
              /\ decisions'[j].decidedAt = decisions[i].decidedAt
              /\ decisions'[j].snoozeUntil = decisions[i].snoozeUntil]_vars

\* The decision of the stored queue before the last call whose id the call named.
CalledOn(id) == {j \in 1..Len(call.before) : call.before[j].id = id}

\* C26: approveDecision on an id that is not in the queue, or on a decision that
\* is not pending, returns success = false with an error message, executes no
\* action and leaves the stored queue and the processed keys as they were.
C26_ApproveRefused ==
    (/\ call.op = "approveDecision"
     /\ \A j \in CalledOn(call.args[1].id) : call.before[j].status # "pending") =>
        /\ call.ret.success = FALSE
        /\ call.ret.error # ""
        /\ call.ret.actionType \notin ActionTypes
        /\ decisions = call.before
        /\ processed = call.processedBefore

\* C26 witness: approveDecision was refused for a snoozed decision, and the
\* decision is still snoozed with no processed key recorded.
C26_Witness ==
    /\ call.op = "approveDecision" /\ ~call.ret.success
    /\ \E j \in CalledOn(call.args[1].id) :
          call.before[j].status = "snoozed" /\ decisions[j].status = "snoozed"
    /\ processed = <<>>

RECURSIVE AddEach(_, _, _)
\* addDecision called on each element of the list in order.
AddEach(q, p, list) ==
    IF list = <<>> THEN q
    ELSE AddEach(AddDecisionState(q, p, Head(list)), p, Tail(list))

\* C27: addDecisions(list) leaves the stored queue that addDecision, called on
\* each element in order, leaves; the number it returns is the number of
\* decisions inserted.
C27_BatchEqualsEach ==
    call.op = "addDecisions" =>
        /\ decisions = AddEach(call.before, call.processedBefore, call.args)
        /\ call.ret = Len(decisions) - Len(call.before)

\* C27 witness: a batch of two similar decisions of which the first was inserted
\* and the second skipped against it.
C27_Witness ==
    /\ call.op = "addDecisions" /\ Len(call.args) = 2
    /\ Similar(call.args[1], call.args[2])
    /\ call.ret = 1
    /\ decisions = Append(call.before, call.args[1])

\* C28: clearAll empties the decision list and the analyzer results and leaves
\* the processed keys as they are; an addDecision or addDecisions of a decision
\* whose key is among the processed keys inserts nothing, after a clearAll as before.
C28_ClearAllKeepsProcessed ==
    [][/\ call'.op = "clearAll" =>
            /\ decisions' = <<>>
            /\ analyzerResults' = <<>>
            /\ processed' = processed
       /\ call'.op \in {"addDecision", "addDecisions"} =>
            \A j \in 1..Len(decisions') :
                (\E i \in 1..Len(processed) : processed[i] = DedupeKey(decisions'[j])) =>
                    \E k \in 1..Len(decisions) : decisions[k] = decisions'[j]]_vars

\* C28 witness: after a decision was approved or rejected and clearAll emptied
\* the list, an addDecision for the same situation was skipped.
C28_Witness ==
    /\ call.op = "addDecision"
    /\ HasProcessed(processed, DedupeKey(call.args[1]))
    /\ call.before = <<>> /\ decisions = <<>>
    /\ analyzerResults = <<>> /\ lastAnalyzedAt = NoTime

\* C29: no two companies have the same name, compared case-insensitively, after
\* any interleaving of addDeal calls that carry a company name.
C29_NoDuplicateCompany ==
    \A i, j \in 1..Len(companies) : i < j => Lower(companies[i]) # Lower(companies[j])

\* The uncompleted stagnation alerts of a deal in a list of activities.
OpenAlerts(acts, dealId) ==
    {i \in 1..Len(acts) : /\ acts[i].dealId = dealId
                          /\ acts[i].title = StagnationTitle
                          /\ ~acts[i].completed}
\* The deals for which the claim rules an alert out.
NotToAlert(d) ==
    \/ d.isWon
    \/ d.isLost
    \/ d.lastStageChangeDate # NoTime /\ now - d.lastStageChangeDate <= StagnantDays * Day

\* C30: after any sequence of checkStagnantDeals runs every deal has at most one
\* uncompleted 'Alerta de Estagnação' activity, and no such activity is created
\* for a deal that is won or lost or whose last stage change is 10 days old or less.
C30_OneAlertPerStagnantDeal ==
    [][/\ \A i \in 1..Len(rawDeals) : Cardinality(OpenAlerts(activities', rawDeals[i].id)) <= 1
       /\ Len(activities') > Len(activities) =>
            \A i \in 1..Len(rawDeals) :
                rawDeals[i].id = activities'[Len(activities')].dealId => ~NotToAlert(rawDeals[i])]_vars

\* C30 witness: a run has returned; one deal has a completed alert and, from a
\* later run, an uncompleted one, and an open deal whose stage changed exactly ten
\* days ago has none.
C30_Witness ==
    /\ stagnantRun.pc = "idle" /\ stagnantRun.ret > 0
    /\ \E i, j \in 1..Len(rawDeals) :
          /\ Cardinality(OpenAlerts(activities, rawDeals[i].id)) = 1
          /\ \E k \in 1..Len(activities) :
                /\ activities[k].dealId = rawDeals[i].id
                /\ activities[k].title = StagnationTitle
                /\ activities[k].completed
          /\ ~rawDeals[j].isWon /\ ~rawDeals[j].isLost
          /\ rawDeals[j].lastStageChangeDate = now - StagnantDays * Day
          /\ \A k \in 1..Len(activities) : activities[k].dealId # rawDeals[j].id

\* An open deal that has been in its stage for more than ten days (or has no
\* stage change recorded).
StagnantOpen(d) ==
    /\ ~d.isWon
    /\ ~d.isLost
    /\ (d.lastStageChangeDate = NoTime \/ now - d.lastStageChangeDate > StagnantDays * Day)

\* C31: with checkStagnantDeals run repeatedly over unchanged deals, every
\* stagnant open deal eventually has an uncompleted stagnation alert, however
\* many stagnant deals there are.
C31_EveryStagnantDealAlerted ==
    \A i \in 1..MaxRawDeals :
        (i <= Len(rawDeals) /\ StagnantOpen(rawDeals[i]))
            ~> (\E j \in 1..Len(rawDeals) : j = i /\ OpenAlerts(activities, rawDeals[j].id) # {})

\* The latest of a contact's interaction and purchase, or its creation when it has neither.
LatestSign(c) ==
    IF c.lastInteraction = NoTime /\ c.lastPurchaseDate = NoTime THEN c.createdAt
    ELSE IF c.lastInteraction > c.lastPurchaseDate THEN c.lastInteraction ELSE c.lastPurchaseDate
\* The contact has an uncompleted churn-risk task among acts.
HasChurnTask(acts, c) ==
    \E i \in 1..Len(acts) :
        acts[i].title = ChurnTitle /\ acts[i].description = c.name /\ ~acts[i].completed
WalletStep == CheckWalletHealth \/ \E ok \in BOOLEAN : WalletIteration(ok)
\* Every task a checkWalletHealth step creates is a churn-risk task for an ACTIVE
\* CUSTOMER contact whose latest sign of life is more than 30 days old and who had
\* no uncompleted churn-risk task.
WalletTasksOnlyForRisky ==
    [][(WalletStep /\ activities' # activities) =>
          LET contact == Head(walletRun.todo) IN
          /\ activities' = Append(activities, ChurnTask(contact.name))
          /\ contact.status = "ACTIVE" /\ contact.stage = "CUSTOMER"
          /\ LatestSign(contact) < now - WalletDays
          /\ ~HasChurnTask(activities, contact)]_vars

\* C32: checkWalletHealth creates churn-risk tasks only for ACTIVE CUSTOMER contacts
\* whose latest interaction or purchase (or creation, with neither) is more than 30
\* days in the past and who have no uncompleted churn-risk task, and the number it
\* returns is the number of tasks it created.
C32_WalletHealthTasksAndCount ==
    [][WalletStep =>
          /\ (activities' # activities =>
                 LET contact == Head(walletRun.todo) IN
                 /\ activities' = Append(activities, ChurnTask(contact.name))
                 /\ contact.status = "ACTIVE" /\ contact.stage = "CUSTOMER"
                 /\ LatestSign(contact) < now - WalletDays
                 /\ ~HasChurnTask(activities, contact))
          /\ (walletRun'.returned => walletRun'.ret = walletRun'.made)]_vars

\* A query key is waiting in a pending set.
KeyWaiting == pendingInvalidations \cup pendingInvalidateOnly # {}
\* C33: with the hook mounted and its effect settled, a query key waiting in a
\* pending set has a microtask flush scheduled or the debounce timer armed.
C33_NoStrandedInvalidation ==
    (hookPc = "idle" /\ KeyWaiting) => (flushScheduled \/ debounceTimer # NoTimer)

\* Without cleanup of the effect no key is stranded: as long as the first channel
\* is the current one, a waiting key has a flush scheduled or the timer armed.
NoStrandedBeforeCleanup ==
    (channelRef = 1 /\ KeyWaiting) => (flushScheduled \/ debounceTimer # NoTimer)

\* A step that creates a channel.
ChannelCreated == liveChannels' \ liveChannels # {}
\* C34: at most one channel is live; with the effect settled and enabled false no
\* channel is live; and a channel is created only when no channel is live and
\* isConnected is false.
C34_OneLiveChannel ==
    /\ [](Cardinality(liveChannels) <= 1)
    /\ []((hookPc \in {"idle", "unmounted"} /\ ~enabled) => liveChannels = {})
    /\ [](hookPc = "unmounted" => liveChannels = {} /\ ~isConnected)
    /\ [][ChannelCreated => liveChannels = {} /\ ~isConnected]_vars

\* C34 witness: the effect re-ran with the first channel connected and the second
\* channel is the only live one.
C34_Witness ==
    /\ hookPc = "idle"
    /\ enabled
    /\ nextChannel > 2
    /\ liveChannels = {channelRef}
    /\ channelRef = nextChannel - 1
    /\ isConnected
====
